---- MODULE Spec2Model ----
(***************************************************************************)
(* A model of the DART tasking runtime: the scheduler of                   *)
(* dart_tasking_instrumentation.c (worker loop, hot slots, NUMA queue,     *)
(* handle_task, task_complete, task references), the context manager of    *)
(* dart_tasking_context.c and the task queue of dart_tasking_copyin.c.     *)
(*                                                                         *)
(* Every operation is a function from a state record s to a state record;  *)
(* an action commits the record one scheduler step produces.  A thread is  *)
(* a stack of frames (the C call stack); the steps of handle_task after    *)
(* the task body returned are separate actions, so that another thread may *)
(* run between two of them, as it may in the code.                         *)
(***************************************************************************)
EXTENDS Integers, Sequences, FiniteSets, TLC

\* ---------------------------------------------------------------- bounds
NumThreads        == 2
MaxTasks          == 3
SmallPool         == 2
MaxCreate         == 3
MaxYield          == 1
MaxDepth          == 2
MaxPhase          == 2
THREAD_QUEUE_SIZE == 1

Root    == 0
NULL    == Root - 1
Threads == 0 .. (NumThreads - 1)
Tasks   == 1 .. MaxTasks
Slots   == 1 .. THREAD_QUEUE_SIZE

DART_PHASE_FIRST == 0
DART_PHASE_ANY   == DART_PHASE_FIRST - 1

VARIABLES
  task,             \* the task descriptors, Root and 1..MaxTasks
  thr,              \* the threads: hot slots, next_task, current_task, frames
  task_queue,       \* the NUMA queue: a high and a low priority deque
  task_free_lists,  \* per thread: the stack of destroyed descriptors
  ctxs,             \* the stack contexts ever allocated: owner and state
  glob,             \* process-wide flags and counters
  hist,             \* history of what happened, read by the properties only
  lq,               \* two task queues as linked lists (see QueueInit)
  qhist,            \* history of the operations on lq
  amsgq,            \* the active message queue of every process (see AmsgInit)
  copyin,           \* the copy-in tasks and the pool of their buffers
  progress,         \* the clock and the remote progress of every thread
  scan,             \* the places next_task looks in, on several NUMA nodes
  mq,               \* one message queue: its request slots, mutexes and threads
  qlock,            \* the mutexes of the two queues of lq and who waits for them
  idle              \* the idle policy: workers waiting for work, stop_threads

vars == <<task, thr, task_queue, task_free_lists, ctxs, glob, hist, lq, qhist,
          amsgq, copyin, progress, scan, mq, qlock, idle>>

Cur == [task |-> task, thr |-> thr, tq |-> task_queue, fl |-> task_free_lists,
        ctxs |-> ctxs, g |-> glob, h |-> hist]

Commit(s) ==
  /\ task' = s.task
  /\ thr' = s.thr
  /\ task_queue' = s.tq
  /\ task_free_lists' = s.fl
  /\ ctxs' = s.ctxs
  /\ glob' = s.g
  /\ hist' = s.h
  /\ UNCHANGED <<lq, qhist, amsgq, copyin, progress, scan, mq, qlock, idle>>

\* ------------------------------------------------------- task descriptors
NoTask ==
  [state |-> "NONE", parent |-> NULL, num_children |-> 0, has_ref |-> FALSE,
   inl |-> FALSE, imm |-> FALSE, taskctx |-> NULL, unresolved_deps |-> 0,
   unresolved_remote_deps |-> 0, owner |-> NULL, phase |-> DART_PHASE_FIRST,
   prio |-> "DEFAULT", successor |-> {}, instance |-> 0, yields |-> 0,
   dep |-> "none", pinst |-> 0]

root_task == [NoTask EXCEPT !.state = "ROOT"]

Frame(k, t, pc) ==
  [k |-> k, t |-> t, pc |-> pc, has_ref |-> FALSE, par |-> NULL, cur |-> NULL,
   newt |-> NULL, flag |-> FALSE, gpar |-> NULL]

dart_thread_init(th) ==
  [queue |-> [i \in Slots |-> NULL], next_task |-> NULL, current_task |-> Root,
   last_steal_thread_id |-> 0, delay |-> 0, ctxlist |-> <<>>,
   frames |-> <<Frame(IF th = 0 THEN "root" ELSE "main", Root,
                      IF th = 0 THEN "user" ELSE "loop")>>]

Top(s, th)    == s.thr[th].frames[Len(s.thr[th].frames)]
Depth(s, th)  == Len(s.thr[th].frames)
SetTop(s, th, f) ==
  [s EXCEPT !.thr[th].frames[Len(s.thr[th].frames)] = f]
PushFrame(s, th, f) ==
  [s EXCEPT !.thr[th].frames = Append(@, f)]
PopFrame(s, th) ==
  [s EXCEPT !.thr[th].frames = SubSeq(@, 1, Len(@) - 1)]


\* ------------------------------------------------------------ task queue
\* A deque is the sequence of its tasks from head to tail.
task_deque_push(dq, t)     == <<t>> \o dq
task_deque_pushback(dq, t) == Append(dq, t)
task_deque_insert(dq, t, pos) ==
  IF pos = 0 \/ dq = <<>> THEN task_deque_push(dq, t)
  ELSE IF pos >= Len(dq) - 1 THEN task_deque_pushback(dq, t)
  ELSE SubSeq(dq, 1, pos + 1) \o <<t>> \o SubSeq(dq, pos + 2, Len(dq))

IsHigh(s, t) == s.task[t].prio = "HIGH"

dart_tasking_taskqueue_push(s, t) ==
  IF IsHigh(s, t) THEN [s EXCEPT !.tq.high = task_deque_push(@, t)]
  ELSE [s EXCEPT !.tq.low = task_deque_push(@, t)]

dart_tasking_taskqueue_pushback(s, t) ==
  IF IsHigh(s, t) THEN [s EXCEPT !.tq.high = task_deque_pushback(@, t)]
  ELSE [s EXCEPT !.tq.low = task_deque_pushback(@, t)]

dart_tasking_taskqueue_insert(s, t, pos) ==
  IF IsHigh(s, t) THEN [s EXCEPT !.tq.high = task_deque_insert(@, t, pos)]
  ELSE [s EXCEPT !.tq.low = task_deque_insert(@, t, pos)]

\* pop: the head of the high priority deque, else the head of the low one
dart_tasking_taskqueue_pop(s) ==
  IF s.tq.high # <<>> THEN [s |-> [s EXCEPT !.tq.high = Tail(@)], t |-> Head(s.tq.high)]
  ELSE IF s.tq.low # <<>> THEN [s |-> [s EXCEPT !.tq.low = Tail(@)], t |-> Head(s.tq.low)]
  ELSE [s |-> s, t |-> NULL]

\* ------------------------------------------- task queue, the linked list
\* dart_tasking_copyin.c as written: a deque is a head and a tail pointer,
\* the tasks are linked through task->next and task->prev.  l is the record
\* of the pointers: l.next, l.prev, l.prio per task, l.tq per queue and
\* deque; l.fault records a store through a null pointer.
MaxQueued == 4
MaxPos    == 3
QTasks == 1 .. MaxQueued
Queues == {"dst", "src"}
Deques == {"highprio", "lowprio"}

EmptyDeque == [head |-> NULL, tail |-> NULL]
dart_tasking_taskqueue_init == [lowprio |-> EmptyDeque, highprio |-> EmptyDeque]

NextOf(l, t) == IF t = NULL THEN NULL ELSE l.next[t]
PrevOf(l, t) == IF t = NULL THEN NULL ELSE l.prev[t]
SetNextOf(l, t, v) ==
  IF t = NULL THEN [l EXCEPT !.fault = TRUE] ELSE [l EXCEPT !.next[t] = v]
SetPrevOf(l, t, v) ==
  IF t = NULL THEN [l EXCEPT !.fault = TRUE] ELSE [l EXCEPT !.prev[t] = v]
Unlink(l, t) == [l EXCEPT !.next[t] = NULL, !.prev[t] = NULL]

task_deque_pop_links(l, q, d) ==
  LET dq == l.tq[q][d]
      t  == dq.head
  IN IF dq.head # NULL
     THEN LET l1 == IF dq.head = dq.tail
                    THEN [l EXCEPT !.tq[q][d] = EmptyDeque]
                    ELSE SetPrevOf([l EXCEPT !.tq[q][d].head = l.next[t]],
                                   l.next[t], NULL)
          IN [l |-> Unlink(l1, t), t |-> t]
     ELSE [l |-> l, t |-> NULL]

\* mutant of task_deque_push_links: the task is linked at the tail
task_deque_push_tail(l, q, d, t) ==
  LET dq == l.tq[q][d] IN
  IF dq.head = NULL
  THEN [l EXCEPT !.tq[q][d] = [head |-> t, tail |-> t]]
  ELSE LET l1 == SetNextOf([l EXCEPT !.prev[t] = dq.tail], dq.tail, t)
       IN [l1 EXCEPT !.tq[q][d].tail = t]

\* mutant of task_deque_push_links: the head pointer is left alone
task_deque_push_stale(l, q, d, t) ==
  LET dq == l.tq[q][d] IN
  IF dq.head = NULL
  THEN [l EXCEPT !.tq[q][d] = [head |-> t, tail |-> t]]
  ELSE SetPrevOf([l EXCEPT !.next[t] = dq.head], dq.head, t)

task_deque_push_links(l, q, d, t) ==
  LET dq == l.tq[q][d] IN
  IF dq.head = NULL
  THEN [l EXCEPT !.tq[q][d] = [head |-> t, tail |-> t]]
  ELSE LET l1 == SetPrevOf([l EXCEPT !.next[t] = dq.head], dq.head, t)
       IN [l1 EXCEPT !.tq[q][d].head = t]

task_deque_pushback_links(l, q, d, t) ==
  LET dq == l.tq[q][d] IN
  IF dq.head = NULL
  THEN [l EXCEPT !.tq[q][d] = [head |-> t, tail |-> t]]
  ELSE LET l1 == SetNextOf([l EXCEPT !.prev[t] = dq.tail], dq.tail, t)
       IN [l1 EXCEPT !.tq[q][d].tail = t]

\* while (tmp != NULL && count++ < pos) tmp = tmp->next
RECURSIVE InsertSeek(_, _, _, _)
InsertSeek(l, tmp, count, pos) ==
  IF tmp # NULL /\ count < pos
  THEN InsertSeek(l, l.next[tmp], count + 1, pos) ELSE tmp

task_deque_insert_links(l, q, d, t, pos) ==
  LET dq == l.tq[q][d] IN
  IF pos = 0 \/ dq.head = NULL THEN task_deque_push_links(l, q, d, t)
  ELSE LET tmp == InsertSeek(l, dq.head, 0, pos) IN
       IF tmp = NULL \/ NextOf(l, tmp) = NULL
       THEN task_deque_pushback_links(l, q, d, t)
       ELSE LET l1 == [l EXCEPT !.next[t] = l.next[tmp]]
                l2 == SetPrevOf(l1, l1.next[t], t)
            IN [l2 EXCEPT !.prev[t] = tmp, !.next[tmp] = t]

task_deque_popback_links(l, q, d) ==
  LET dq == l.tq[q][d]
      t  == dq.tail
  IN IF dq.tail # NULL
     THEN LET l1 == [l EXCEPT !.tq[q][d].tail = l.prev[t]]
              l2 == IF l1.tq[q][d].tail = NULL
                    THEN [l1 EXCEPT !.tq[q][d].head = NULL]
                    ELSE SetNextOf(l1, l1.tq[q][d].tail, NULL)
          IN [l |-> Unlink(l2, t), t |-> t]
     ELSE [l |-> l, t |-> NULL]

task_deque_move(l, dst, src, d) ==
  LET sq == l.tq[src][d]
      dq == l.tq[dst][d]
  IN IF sq.head # NULL /\ sq.tail # NULL
     THEN LET l1 == IF dq.head # NULL
                    THEN SetPrevOf(SetNextOf(l, sq.tail, dq.head),
                                   dq.head, sq.tail)
                    ELSE [l EXCEPT !.tq[dst][d].tail = sq.tail]
              l2 == [l1 EXCEPT !.tq[dst][d].head = sq.head]
          IN [l2 EXCEPT !.tq[src][d] = EmptyDeque]
     ELSE l

DequeOf(l, t) == IF l.prio[t] = "HIGH" THEN "highprio" ELSE "lowprio"

dart_tasking_taskqueue_push_unsafe(l, q, t) ==
  task_deque_push_links(Unlink(l, t), q, DequeOf(l, t), t)

dart_tasking_taskqueue_pushback_unsafe(l, q, t) ==
  task_deque_pushback_links(Unlink(l, t), q, DequeOf(l, t), t)

dart_tasking_taskqueue_insert_unsafe(l, q, t, pos) ==
  task_deque_insert_links(Unlink(l, t), q, DequeOf(l, t), t, pos)

\* requeue_task on the linked list: thread->delay selects the operation
requeue_task_links(l, q, t, delay) ==
  IF delay = 0 THEN dart_tasking_taskqueue_push_unsafe(l, q, t)
  ELSE IF delay > 0 THEN dart_tasking_taskqueue_insert_unsafe(l, q, t, delay)
  ELSE dart_tasking_taskqueue_pushback_unsafe(l, q, t)

\* mutant of dart_tasking_taskqueue_pop_unsafe: the low priority deque first
PopLowFirst(l, q) ==
  LET r == task_deque_pop_links(l, q, "lowprio") IN
  IF r.t = NULL THEN task_deque_pop_links(l, q, "highprio") ELSE r

dart_tasking_taskqueue_pop_unsafe(l, q) ==
  LET r == task_deque_pop_links(l, q, "highprio") IN
  IF r.t = NULL THEN task_deque_pop_links(l, q, "lowprio") ELSE r

dart_tasking_taskqueue_popback_unsafe(l, q) ==
  LET r == task_deque_popback_links(l, q, "highprio") IN
  IF r.t = NULL THEN task_deque_popback_links(l, q, "lowprio") ELSE r

dart_tasking_taskqueue_remove_unsafe(l, q, t) ==
  LET prev == l.prev[t]
      next == l.next[t]
      l1 == IF prev # NULL THEN [l EXCEPT !.next[prev] = next] ELSE l
      l2 == IF next # NULL THEN [l1 EXCEPT !.prev[next] = prev] ELSE l1
      l3 == Unlink(l2, t)
      l4 == IF t = l3.tq[q].highprio.head
            THEN [l3 EXCEPT !.tq[q].highprio.head = next]
            ELSE IF t = l3.tq[q].lowprio.head
            THEN [l3 EXCEPT !.tq[q].lowprio.head = next] ELSE l3
  IN IF t = l4.tq[q].highprio.tail
     THEN [l4 EXCEPT !.tq[q].highprio.tail = prev]
     ELSE IF t = l4.tq[q].lowprio.tail
     THEN [l4 EXCEPT !.tq[q].lowprio.tail = prev] ELSE l4

\* mutant of dart_tasking_taskqueue_move_unsafe: the source keeps its tasks
MoveKeepSource(l, dst, src) ==
  LET l1 == task_deque_move(task_deque_move(l, dst, src, "highprio"),
                            dst, src, "lowprio")
  IN [l1 EXCEPT !.tq[src] = l.tq[src]]

dart_tasking_taskqueue_move_unsafe(l, dst, src) ==
  task_deque_move(task_deque_move(l, dst, src, "highprio"),
                  dst, src, "lowprio")

\* --------------------------------------------------------------- contexts
\* DART_DEBUG, the stack guards: context_create writes 0xDEADBEEF into the
\* first and into the last word of the stack.  lo and hi tell whether the
\* word at the bottom and the word at the top still hold that value.
SetStackGuards(ctx) == [ctx EXCEPT !.lo = TRUE, !.hi = TRUE]

\* the test context_release makes before it logs the overflow warning
StackGuardsWarn(ctx) == ~ctx.lo /\ ~ctx.hi

\* context_create: pop the calling thread's free list, allocate when empty
dart__tasking__context_create(s, th) ==
  IF s.thr[th].ctxlist # <<>>
  THEN LET c == Head(s.thr[th].ctxlist) IN
       [s |-> [s EXCEPT !.thr[th].ctxlist = Tail(@),
                        !.ctxs[c] = SetStackGuards([@ EXCEPT !.inuse = TRUE]),
                        !.h.ctx_reuse_busy = @ \/ s.ctxs[c].inuse],
        c |-> c]
  ELSE LET c == Len(s.ctxs) + 1 IN
       [s |-> [s EXCEPT !.ctxs = Append(@, SetStackGuards(
                                   [owner |-> th, inuse |-> TRUE,
                                    lo |-> FALSE, hi |-> FALSE]))],
        c |-> c]

\* the free list a released context is pushed on
ReleaseTarget(s, c, th) == s.ctxs[c].owner

\* context_release(ctx) called by thread th.  A null ctx is dereferenced by
\* the code (ctx->ctx.uc_stack.ss_sp, ctxlist->owner): the process faults.
dart__tasking__context_release(s, c, th) ==
  IF c = NULL
  THEN [s EXCEPT !.g.crashed = TRUE, !.h.null_release = TRUE]
  ELSE LET o == ReleaseTarget(s, c, th) IN
       [s EXCEPT !.thr[o].ctxlist = <<c>> \o @,
                 !.ctxs[c].inuse = FALSE,
                 !.h.overflow_warned = @ \/ StackGuardsWarn(s.ctxs[c]),
                 !.h.overflow_silent = @ \/ (/\ ~s.ctxs[c].lo \/ ~s.ctxs[c].hi
                                             /\ ~StackGuardsWarn(s.ctxs[c])),
                 !.h.ctx_double = @ \/ ~s.ctxs[c].inuse,
                 !.h.ctx_foreign = @ \/ o # s.ctxs[c].owner]

\* -------------------------------------------------------------- next_task
FirstSlot(q) == IF \E i \in Slots : q[i] # NULL
                THEN CHOOSE i \in Slots : q[i] # NULL /\ \A j \in Slots : j < i => q[j] = NULL
                ELSE 0
LastSlot(q)  == IF \E i \in Slots : q[i] # NULL
                THEN CHOOSE i \in Slots : q[i] # NULL /\ \A j \in Slots : j > i => q[j] = NULL
                ELSE 0

\* variant of TakeSlot: the slot is read and not emptied
TakeSlotKeep(s, v, i) == s

\* the compare-and-swap that empties slot i of thread v
TakeSlot(s, v, i) == [s EXCEPT !.thr[v].queue[i] = NULL]

next_task_thread(s, v) ==
  LET i == FirstSlot(s.thr[v].queue) IN
  IF i = 0 THEN [s |-> s, t |-> NULL]
  ELSE [s |-> TakeSlot(s, v, i), t |-> s.thr[v].queue[i]]

next_task_thread_back(s, v) ==
  LET i == LastSlot(s.thr[v].queue) IN
  IF i = 0 THEN [s |-> s, t |-> NULL]
  ELSE [s |-> TakeSlot(s, v, i), t |-> s.thr[v].queue[i]]

\* the victims of thread th in the order of the steal loop
Victim(s, th, k) == (th + k) % s.g.num_threads

next_task(s, th) ==
  LET own == IF s.thr[th].next_task # NULL
             THEN [s |-> [s EXCEPT !.thr[th].next_task = NULL],
                   t |-> s.thr[th].next_task]
             ELSE next_task_thread(s, th)
      last == next_task_thread_back(s, s.thr[th].last_steal_thread_id)
      ks   == {k \in 1 .. (s.g.num_threads - 1) :
                 LastSlot(s.thr[Victim(s, th, k)].queue) # 0}
  IN
  IF own.t # NULL THEN own
  ELSE IF last.t # NULL THEN last
  ELSE IF ks # {}
  THEN LET k == CHOOSE k \in ks : \A j \in ks : k <= j
           r == next_task_thread_back(s, Victim(s, th, k))
       IN [s |-> [r.s EXCEPT !.thr[th].last_steal_thread_id = Victim(s, th, k)],
           t |-> r.t]
  ELSE dart_tasking_taskqueue_pop(s)

\* --------------------------------------------- dependencies, phases (spec)
\* The dependency engine, the phase counter and the cancellation flag are
\* not part of the sources at hand; they follow sections 4.3 and 5 of the
\* specification.  One address is tracked: g.dep_out is its last unfinished
\* writer, g.dep_ins the unfinished readers registered since.
dart_tasking_datadeps_is_runnable(s, t) ==
  s.task[t].unresolved_deps = 0 /\ s.task[t].unresolved_remote_deps = 0

DepPreds(s, dep) ==
  IF dep = "in" THEN (IF s.g.dep_out # NULL THEN {s.g.dep_out} ELSE {})
  ELSE IF dep = "out"
  THEN (IF s.g.dep_out # NULL THEN {s.g.dep_out} ELSE {}) \cup s.g.dep_ins
  ELSE {}

dart_tasking_datadeps_handle_task(s, t, dep) ==
  LET preds == DepPreds(s, dep)
      s1 == [s EXCEPT !.task = [u \in DOMAIN s.task |->
                 IF u \in preds THEN [s.task[u] EXCEPT !.successor = @ \cup {t}]
                 ELSE IF u = t
                 THEN [s.task[u] EXCEPT
                         !.unresolved_deps = Cardinality(preds),
                         !.unresolved_remote_deps = IF dep = "remote" THEN 1 ELSE 0,
                         !.dep = dep]
                 ELSE s.task[u]],
               !.h.preds[t] = preds \ s.h.returned,
               !.h.upreds[t] = preds \ s.h.returned]
  IN IF dep = "in" THEN [s1 EXCEPT !.g.dep_ins = @ \cup {t}]
     ELSE IF dep = "out" THEN [s1 EXCEPT !.g.dep_out = t, !.g.dep_ins = {}]
     ELSE s1

dart_tasking_datadeps_reset(s, t) ==
  [s EXCEPT !.g.dep_out = IF @ = t THEN NULL ELSE @,
            !.g.dep_ins = @ \ {t}]

dart__tasking__phase_is_runnable(s, ph) ==
  ph = DART_PHASE_ANY \/ ph <= s.g.runnable_phase

dart__tasking__cancellation_requested(s) == s.g.cancel

\* ------------------------------------------------- allocation, destruction
\* allocate_task: pop the caller's free list, else the next descriptor of
\* the caller's memory pool, whose owner is set once
allocate_task(s, th) ==
  IF s.fl[th] # <<>>
  THEN [s |-> [s EXCEPT !.fl[th] = Tail(@)], t |-> Head(s.fl[th])]
  ELSE LET t == s.g.nfresh + 1 IN
       [s |-> [s EXCEPT !.g.nfresh = t, !.task[t].owner = th], t |-> t]

\* DART_PRIO_INLINE: high priority, flags INLINE and IMMEDIATE;
\* DART_PRIO_HIGH ("high") is kept as it is
PrioOf(s, par, kind) == IF kind \in {"inline", "high"} THEN "HIGH" ELSE "DEFAULT"

create_task(s, th, kind) ==
  LET a   == allocate_task(s, th)
      t   == a.t
      par == s.thr[th].current_task
  IN [s |-> [a.s EXCEPT !.task[t] =
               [@ EXCEPT !.has_ref = FALSE, !.successor = {},
                         !.num_children = 0, !.parent = par,
                         !.state = "NASCENT", !.taskctx = NULL,
                         !.unresolved_deps = 0, !.unresolved_remote_deps = 0,
                         !.instance = @ + 1, !.yields = 0, !.dep = "none",
                         !.pinst = a.s.task[par].instance,
                         !.phase = IF a.s.task[par].state = "ROOT"
                                   THEN a.s.g.cur_phase ELSE DART_PHASE_ANY,
                         !.prio = PrioOf(a.s, par, kind),
                         !.inl = (kind \in {"inline", "noyield"}),
                         !.imm = (kind = "inline")]],
      t |-> t]

\* destroy_task: the descriptor goes to the free list of its owner
dart__tasking__destroy_task(s, t) ==
  LET s1 == dart_tasking_datadeps_reset(s, t) IN
  [s1 EXCEPT !.task[t].state = "DESTROYED",
             !.fl[s.task[t].owner] = <<t>> \o @,
             !.h.destroyed_from = @ \cup {s.task[t].state},
             !.h.destroyed_ref = @ \/ s.task[t].has_ref,
             !.h.destroyed_children = @ \/ s.task[t].num_children # 0]

\* handle_task_internal: handle_inline_task for a task with the INLINE flag
dart__tasking__handle_task_internal(s, th, t) ==
  PushFrame(s, th, Frame(IF s.task[t].inl THEN "hi" ELSE "ht", t, "start"))

\* history: num_children of p came back to zero (counted up to 2)
NoteZero(s, p) ==
  IF s.task[p].num_children = 0 /\ s.h.zero_returns[p] < 2
  THEN [s EXCEPT !.h.zero_returns[p] = @ + 1] ELSE s

\* ------------------------------------------------------- enqueue_runnable
RECURSIVE enqueue_runnable(_, _, _)
RECURSIVE dart__tasking__cancel_task(_, _, _)
RECURSIVE ReleaseSuccessors(_, _, _)

\* the test made under the task's lock: a CREATED task whose counters are
\* both zero, or a SUSPENDED one
IsQueuable(s, t) ==
  \/ s.task[t].state = "CREATED" /\ dart_tasking_datadeps_is_runnable(s, t)
  \/ s.task[t].state = "SUSPENDED"

\* variant of EmptySlot: the first slot, empty or not
AnySlot(s, th) == 1

\* the hot slot the enqueuing thread puts a task in, 0 when none is empty
EmptySlot(s, th) ==
  IF \E i \in Slots : s.thr[th].queue[i] = NULL
  THEN CHOOSE i \in Slots : s.thr[th].queue[i] = NULL
                            /\ \A j \in Slots : j < i => s.thr[th].queue[j] # NULL
  ELSE 0

PutRunnable(s, th, t) ==
  LET i == EmptySlot(s, th) IN
  IF i # 0 THEN [s EXCEPT !.thr[th].queue[i] = t,
                          !.h.slot_overwritten = @ \/ s.thr[th].queue[i] # NULL]
  ELSE [dart_tasking_taskqueue_push(s, t) EXCEPT
          !.h.queued_past_slot = @ \/ \E j \in Slots : s.thr[th].queue[j] = NULL]

\* variant of MustDefer: no task is ever deferred
MustDeferNever(s, t) == FALSE

\* variant of MustDefer: a task that became QUEUED is not deferred any more
MustDeferCreated(s, t) ==
  /\ s.task[t].parent = Root
  /\ ~dart__tasking__phase_is_runnable(s, s.task[t].phase)
  /\ s.task[t].state = "CREATED"

MustDefer(s, t) ==
  /\ s.task[t].parent = Root
  /\ ~dart__tasking__phase_is_runnable(s, s.task[t].phase)
  /\ s.task[t].state \in {"CREATED", "QUEUED"}

enqueue_runnable(s, th, t) ==
  IF dart__tasking__cancellation_requested(s)
  THEN dart__tasking__cancel_task(s, th, t)
  ELSE IF s.task[t].state = "DEFERRED" \/ ~IsQueuable(s, t) THEN s
  ELSE
    LET s1 == IF s.task[t].state = "CREATED"
              THEN [s EXCEPT !.task[t].state = "QUEUED"] ELSE s
    IN IF MustDefer(s1, t)
       THEN [s1 EXCEPT !.task[t].state = "DEFERRED",
                       !.g.deferred = Append(@, t)]
       ELSE IF s1.task[t].imm
       THEN PushFrame(s1, th, Frame("hi", t, "start"))
       ELSE PutRunnable(s1, th, t)

\* release_local_task for every successor of t at once (cancellation only)
ReleaseSuccessors(s, th, t) ==
  IF s.task[t].successor = {} THEN s
  ELSE LET u  == CHOOSE u \in s.task[t].successor :
                    \A w \in s.task[t].successor : u <= w
           s1 == [s EXCEPT !.task[t].successor = @ \ {u},
                           !.task[u].unresolved_deps = @ - 1]
           s2 == IF dart_tasking_datadeps_is_runnable(s1, u)
                 THEN enqueue_runnable(s1, th, u) ELSE s1
       IN ReleaseSuccessors(s2, th, t)

\* cancel_task (specification, section 5): the task becomes CANCELLED, its
\* dependencies are released as if it had completed, its parent is told
dart__tasking__cancel_task(s, th, t) ==
  IF s.task[t].state # "CREATED" THEN s
  ELSE LET s1 == [s EXCEPT !.task[t].state = "CANCELLED"]
           s2 == ReleaseSuccessors(dart_tasking_datadeps_reset(s1, t), th, t)
           s3 == dart__tasking__destroy_task(s2, t)
       IN NoteZero([s3 EXCEPT !.task[s.task[t].parent].num_children = @ - 1,
                              !.h.was_cancelled = @ \cup {t}], s.task[t].parent)

\* --------------------------------------------- active messages (sendrecv)
\* The message queue of dart_active_messages over MPI send/receive, one per
\* process.  A message is "flight" after the send, "arrived" when it has
\* matched a posted receive (MPI_Testsome at the target returns it, a
\* synchronous send is complete), "done" when the target dispatched it.
NumProcs  == 2
MaxMsgs   == 2
MaxRounds == 2
MSG_COUNT == 2
\* msg_size of openq, in bytes; payloads of 1 .. MSG_SIZE + 1 bytes are tried
MSG_SIZE  == 2
Procs == 0 .. (NumProcs - 1)
Msgs  == 1 .. MaxMsgs

\* r: the rounds the sender had started when trysend returned for the
\* message, Pending while the call has not returned
Pending == MaxRounds + 1
NoMsg == [st |-> "unsent", src |-> 0, dst |-> 0, r |-> 0, size |-> 0]

\* dart_amsg_sendrecv_openq on every process; sync_send and direct_send are
\* read from the environment
AmsgOpen(sync, direct) ==
  [sync_send |-> sync, direct_send |-> direct,
   pc |-> [p \in Procs |-> "idle"], round |-> [p \in Procs |-> 0],
   barrier_flag |-> [p \in Procs |-> FALSE],
   send_flag |-> [p \in Procs |-> FALSE],
   req |-> [p \in Procs |-> FALSE], colls |-> [p \in Procs |-> 0],
   send_count |-> [p \in Procs |-> [q \in Procs |-> 0]],
   send_round_count |-> [p \in Procs |-> [q \in Procs |-> 0]],
   recv_count |-> [p \in Procs |-> [q \in Procs |-> 0]],
   recv_round_count |-> [p \in Procs |-> [q \in Procs |-> 0]],
   send_reqs |-> [p \in Procs |-> {}], inc |-> [p \in Procs |-> NULL],
   msg |-> [m \in Msgs |-> NoMsg], late |-> FALSE, overrun |-> FALSE]

AmsgInit == amsgq \in {AmsgOpen(sync, direct) : sync \in BOOLEAN, direct \in BOOLEAN}

ArrivedAt(a, p) == {m \in Msgs : a.msg[m].st = "arrived" /\ a.msg[m].dst = p}

\* one pass of the loop of amsg_sendrecv_process_internal: MPI_Testsome, and
\* every message it returned is counted and dispatched, its receive reposted
amsg_sendrecv_process_internal(a, p) ==
  [a EXCEPT
     !.msg = [m \in Msgs |-> IF m \in ArrivedAt(a, p)
                             THEN [a.msg[m] EXCEPT !.st = "done"]
                             ELSE a.msg[m]],
     !.recv_count[p] =
        IF a.sync_send THEN @
        ELSE [q \in Procs |->
                @[q] + Cardinality({m \in ArrivedAt(a, p) : a.msg[m].src = q})]]

dart_amsgq_sendrecv_check_round_completion(a, p) ==
  ~ \E i \in Procs : a.recv_round_count[p][i] - a.recv_count[p][i] > 0

\* a send request of p is complete: a synchronous send when the message has
\* matched its receive, a standard send as soon as it is buffered
SendComplete(a, m) == a.sync_send => a.msg[m].st \in {"arrived", "done"}

\* the collective p entered last is complete when every process entered it
CollDone(a, p) == \A q \in Procs : a.colls[q] >= a.colls[p]

AmsgStep(a) ==
  /\ amsgq' = a
  /\ UNCHANGED <<task, thr, task_queue, task_free_lists, ctxs, glob, hist,
                 lq, qhist, copyin, progress, scan, mq, qlock, idle>>

\* dart_amsg_sendrecv_trysend(target, data, data_size) called by a thread of
\* process p.  data_size is not compared with msg_size: memcpy writes
\* data_size bytes into a send buffer of msg_size bytes (overrun records a
\* write past its end) and the send is issued with data_size bytes.
dart_amsg_sendrecv_trysend(p, target, data_size) ==
  LET a == amsgq IN
  /\ target # p
  /\ a.inc[p] = NULL
  /\ \E m \in Msgs :
       /\ a.msg[m].st = "unsent"
       /\ \A k \in Msgs : k < m => a.msg[k].st # "unsent"
       /\ ~(a.direct_send /\ a.sync_send /\
            \E k \in Msgs : a.msg[k].src = p /\ a.msg[k].st = "flight")
       /\ ~a.direct_send => Cardinality(a.send_reqs[p]) < MSG_COUNT
       /\ LET a1 == [a EXCEPT !.msg[m] =
                        [st |-> "flight", src |-> p, dst |-> target,
                         r |-> IF a.direct_send THEN Pending ELSE a.round[p],
                         size |-> data_size],
                      !.overrun = @ \/ (~a.direct_send /\ data_size > MSG_SIZE)]
          IN AmsgStep(
               IF ~a.direct_send
               THEN [a1 EXCEPT !.send_reqs[p] = @ \cup {m},
                               !.send_count[p][target] =
                                  IF a.sync_send THEN @ ELSE @ + 1]
               ELSE IF a.sync_send THEN a1
               ELSE [a1 EXCEPT !.inc[p] = m])

\* amsgq->send_count[target.id]++ after a direct MPI_Send, without a lock;
\* trysend returns
TrysendCount(p) ==
  LET a == amsgq
      m == a.inc[p] IN
  /\ m # NULL
  /\ AmsgStep([a EXCEPT !.send_count[p][a.msg[m].dst] = @ + 1,
                        !.msg[m].r = a.round[p], !.inc[p] = NULL])

\* MPI: a message in flight matches a posted receive of its target, the
\* messages of one sender to one target in the order they were sent; a
\* direct synchronous send (MPI_Ssend) returns.  A message longer than the
\* posted receive is a truncation error of MPI and is followed no further.
MsgArrive(m) ==
  LET a == amsgq IN
  /\ a.msg[m].st = "flight"
  /\ a.msg[m].size <= MSG_SIZE
  /\ ~ \E k \in Msgs : /\ k < m /\ a.msg[k].st = "flight"
                       /\ a.msg[k].src = a.msg[m].src
                       /\ a.msg[k].dst = a.msg[m].dst
  /\ Cardinality(ArrivedAt(a, a.msg[m].dst)) < MSG_COUNT
  /\ AmsgStep([a EXCEPT !.msg[m].st = "arrived",
                        !.msg[m].r = IF a.direct_send /\ a.sync_send
                                     THEN a.round[a.msg[m].src] ELSE @])

\* dart_amsg_sendrecv_process: one pass, the processing mutex is free
dart_amsg_sendrecv_process(p) ==
  LET a == amsgq IN
  /\ a.pc[p] = "idle"
  /\ ArrivedAt(a, p) # {}
  /\ AmsgStep(amsg_sendrecv_process_internal(a, p))

\* dart_amsg_sendrevc_process_blocking on process p, step by step.
\* Entry: the processing mutex is taken; without synchronous sends the send
\* counts are copied for this round (memcpy) and cleared (memset).  Direct
\* sends count without the send mutex, so one may fall between the two.
ProcessBlockingStart(p) ==
  LET a == amsgq IN
  /\ a.pc[p] = "idle" /\ a.round[p] < MaxRounds
  /\ LET a1 == [a EXCEPT !.round[p] = @ + 1, !.barrier_flag[p] = FALSE,
                         !.send_flag[p] = FALSE, !.req[p] = FALSE]
     IN AmsgStep(
          IF a.sync_send THEN [a1 EXCEPT !.pc[p] = "process"]
          ELSE IF a.direct_send
          THEN [a1 EXCEPT !.send_round_count[p] = a.send_count[p],
                          !.pc[p] = "memset"]
          ELSE [a1 EXCEPT !.send_round_count[p] = a.send_count[p],
                          !.send_count[p] = [q \in Procs |-> 0],
                          !.pc[p] = "process"])

ProcessBlockingMemset(p) ==
  LET a == amsgq IN
  /\ a.pc[p] = "memset"
  /\ AmsgStep([a EXCEPT !.send_count[p] = [q \in Procs |-> 0],
                        !.pc[p] = "process"])

\* amsg_sendrecv_process_internal(amsgq, true, true): passes are repeated
\* until one finds no message
ProcessBlockingProcess(p) ==
  LET a == amsgq IN
  /\ a.pc[p] = "process"
  /\ AmsgStep(IF ArrivedAt(a, p) # {}
              THEN amsg_sendrecv_process_internal(a, p)
              ELSE [a EXCEPT !.pc[p] = "test"])

\* MPI_Test(&req, &barrier_flag); the all-to-all delivers the round counts
ProcessBlockingTest(p) ==
  LET a == amsgq IN
  /\ a.pc[p] = "test"
  /\ AmsgStep(
       IF a.req[p] /\ CollDone(a, p)
       THEN [a EXCEPT !.barrier_flag[p] = TRUE, !.req[p] = FALSE,
                      !.recv_round_count[p] =
                         IF a.sync_send THEN @
                         ELSE [q \in Procs |-> a.send_round_count[q][p]],
                      !.pc[p] = "sends"]
       ELSE [a EXCEPT !.pc[p] = "sends"])

\* if (!send_flag): MPI_Testall on the send requests, and once they are all
\* complete MPI_Ibarrier or MPI_Ialltoall is started; then the loop test
ProcessBlockingSends(p) ==
  LET a  == amsgq
      ok == a.direct_send \/ \A m \in a.send_reqs[p] : SendComplete(a, m)
      a1 == IF ~a.send_flag[p] /\ ok
            THEN [a EXCEPT !.send_flag[p] = TRUE, !.send_reqs[p] = {},
                           !.req[p] = TRUE, !.colls[p] = @ + 1]
            ELSE a
  IN
  /\ a.pc[p] = "sends"
  /\ AmsgStep([a1 EXCEPT !.pc[p] = IF a1.barrier_flag[p] /\ a1.send_flag[p]
                                   THEN "final" ELSE "process"])

\* the final processing, without synchronous sends only: until the counts
\* of the round are reached; then the blocking MPI_Barrier is entered
ProcessBlockingFinal(p) ==
  LET a == amsgq IN
  /\ a.pc[p] = "final"
  /\ IF ~a.sync_send /\ ~dart_amsgq_sendrecv_check_round_completion(a, p)
     THEN /\ ArrivedAt(a, p) # {}
          /\ AmsgStep(amsg_sendrecv_process_internal(a, p))
     ELSE AmsgStep([a EXCEPT !.colls[p] = @ + 1, !.pc[p] = "barrier"])

\* MPI_Barrier returns; recv_count is adjusted by the counts of the round,
\* the processing mutex released.  History: a message for p that its sender
\* sent before the sender started this round and that p did not dispatch.
ProcessBlockingReturn(p) ==
  LET a == amsgq IN
  /\ a.pc[p] = "barrier" /\ CollDone(a, p)
  /\ AmsgStep([a EXCEPT
       !.recv_count[p] = IF a.sync_send THEN @
                         ELSE [q \in Procs |-> @[q] - a.recv_round_count[p][q]],
       !.late = @ \/ \E m \in Msgs : /\ a.msg[m].st \in {"flight", "arrived"}
                                     /\ a.msg[m].dst = p
                                     /\ a.msg[m].r < a.round[p],
       !.pc[p] = "idle"])

\* ------------------------------------------------------- copy-in tasks
\* #define COPYIN_TASK_PRIO (INT_MAX-1): the priority handed to create_task
\* for every copy-in task; a number that is none of the named priorities
COPYIN_TASK_PRIO == "INT_MAX-1"

\* the switch of create_task: task->prio for a priority argument
create_task_prio(prio, parent_prio) ==
  CASE prio = "PARENT" -> parent_prio
    [] prio = "INLINE" -> "HIGH"
    [] OTHER           -> prio

\* ------------------------------------------------- copy-in memory pool
\* The buffers of COPYIN_OUT dependencies (dart_tasking_copyin.c).  mem_pool
\* is the list of pools, one per size, a new pool linked at the head (here:
\* appended, the head is the last index); every pool has a stack of free
\* elements.  An element keeps the pool it was allocated for (elem->mpool).
MaxSize   == 2
MaxElems  == 3
NumCopy   == 2
MaxCopyin == 4
CopySizes == 1 .. MaxSize
Elems     == 1 .. MaxElems
CopyTasks == 1 .. NumCopy
\* a destination buffer provided by the caller (dep->copyin.dest != NULL)
UserBuf   == 0

NoCopyin == [pc |-> "none", size |-> 0, dest |-> NULL, dtor |-> FALSE,
             mpool |-> NULL]
NoElem   == [mpool |-> NULL, size |-> 0]

CopyinInit ==
  copyin = [mem_pool |-> <<>>, elem |-> [e \in Elems |-> NoElem], nelem |-> 0,
            dep |-> [c \in CopyTasks |-> NoCopyin], ncreated |-> 0,
            taken |-> [e \in Elems |-> 0], returned |-> [e \in Elems |-> 0],
            user_pooled |-> FALSE]

CopyStep(cp) ==
  /\ copyin' = cp
  /\ UNCHANGED <<task, thr, task_queue, task_free_lists, ctxs, glob, hist,
                 lq, qhist, amsgq, progress, scan, mq, qlock, idle>>

\* find_mem_pool: the first pool from the head whose size is the one asked
find_mem_pool(cp, size) ==
  LET hit == {i \in DOMAIN cp.mem_pool : cp.mem_pool[i].size = size}
  IN IF hit = {} THEN NULL ELSE CHOOSE i \in hit : \A j \in hit : j <= i

\* the pool at the head of the list, whatever its size
head_mem_pool(cp, size) ==
  IF cp.mem_pool = <<>> THEN NULL ELSE Len(cp.mem_pool)

\* return_to_mempool(mem): the element is pushed on the stack of the pool
\* it names; for memory that is no element the header read is garbage
return_to_any_pool(cp, mem) ==
  IF mem \notin Elems THEN [cp EXCEPT !.user_pooled = TRUE]
  ELSE [cp EXCEPT !.mem_pool[head_mem_pool(cp, 0)].elems = <<mem>> \o @,
                  !.returned[mem] = @ + 1]

return_to_mempool(cp, mem) ==
  IF mem \notin Elems THEN [cp EXCEPT !.user_pooled = TRUE]
  ELSE [cp EXCEPT !.mem_pool[cp.elem[mem].mpool].elems = <<mem>> \o @,
                  !.returned[mem] = @ + 1]

\* dart_tasking_copyin_release_mem, the destructor of the dependency
dart_tasking_copyin_release_mem(cp, c) ==
  [return_to_mempool(cp, cp.dep[c].dest) EXCEPT !.dep[c].dest = NULL]

\* dart_tasking_copyin_create_task: a copy-in task with a COPYIN_OUT
\* dependency of the given size, dest given by the caller or NULL
CopyinCreate(c, size, dest) ==
  LET cp == copyin IN
  /\ cp.dep[c].pc = "none" /\ cp.ncreated < MaxCopyin
  /\ CopyStep([cp EXCEPT !.dep[c] = [NoCopyin EXCEPT !.pc = "prepare",
                                                     !.size = size,
                                                     !.dest = dest],
                         !.ncreated = @ + 1])

\* dart_tasking_copyin_prepare_dep in the task function: a buffer from the
\* pool only if (NULL == dep->copyin.dest)
PrepareDep(c) ==
  LET cp == copyin IN
  /\ cp.dep[c].pc = "prepare"
  /\ CopyStep([cp EXCEPT !.dep[c].pc =
                 IF cp.dep[c].dest = NULL THEN "find" ELSE "run"])

\* allocate_from_mempool, the search without the lock
AllocFind(c) ==
  LET cp == copyin
      mp == find_mem_pool(cp, cp.dep[c].size) IN
  /\ cp.dep[c].pc = "find"
  /\ CopyStep([cp EXCEPT !.dep[c].mpool = mp,
                         !.dep[c].pc = IF mp = NULL THEN "lock" ELSE "pop"])

\* allocate_from_mempool under mpool_lock: search again, else a new pool
AllocLock(c) ==
  LET cp == copyin
      mp == find_mem_pool(cp, cp.dep[c].size) IN
  /\ cp.dep[c].pc = "lock"
  /\ CopyStep(
       IF mp # NULL
       THEN [cp EXCEPT !.dep[c].mpool = mp, !.dep[c].pc = "pop"]
       ELSE [cp EXCEPT !.mem_pool = Append(@, [size |-> cp.dep[c].size,
                                               elems |-> <<>>]),
                       !.dep[c].mpool = Len(cp.mem_pool) + 1,
                       !.dep[c].pc = "pop"])

\* allocate_from_mempool: pop an element of the pool or malloc a new one;
\* prepare_dep stores it in dep->copyin.dest and attaches the destructor
AllocPop(c) ==
  LET cp == copyin
      mp == cp.dep[c].mpool
      fl == cp.mem_pool[mp].elems
      e  == IF fl # <<>> THEN Head(fl) ELSE cp.nelem + 1
  IN
  /\ cp.dep[c].pc = "pop"
  /\ fl = <<>> => cp.nelem < MaxElems
  /\ CopyStep(
       [cp EXCEPT !.mem_pool[mp].elems = IF fl # <<>> THEN Tail(fl) ELSE @,
                  !.nelem = IF fl # <<>> THEN @ ELSE @ + 1,
                  !.elem[e] = IF fl # <<>> THEN @
                              ELSE [mpool |-> mp, size |-> cp.dep[c].size],
                  !.taken[e] = @ + 1,
                  !.dep[c].dest = e, !.dep[c].dtor = TRUE,
                  !.dep[c].pc = "run"])

\* the COPYIN_OUT dependency retires: the dependency engine calls the
\* destructor if one is attached (spec)
CopyinRetire(c) ==
  LET cp == copyin IN
  /\ cp.dep[c].pc = "run"
  /\ CopyStep([(IF cp.dep[c].dtor
                THEN dart_tasking_copyin_release_mem(cp, c)
                ELSE cp) EXCEPT !.dep[c].pc = "none"])

\* -------------------------------------------------------- remote_progress
\* The clock in units of time; REMOTE_PROGRESS_INTERVAL_USEC (1E4 in the
\* code) is scaled to two units.
REMOTE_PROGRESS_INTERVAL_USEC == 2
MaxTime == 5

ProgressInit ==
  progress = [now |-> 0, last_progress_ts |-> [th \in Threads |-> 0],
              last |-> [th |-> NULL, force |-> FALSE, invoked |-> FALSE,
                        elapsed |-> 0, units |-> 0]]

\* if (force || last_progress_ts + INTERVAL >= current_time_us())
MustProgress(pr, th, force) ==
  force \/ pr.last_progress_ts[th] + REMOTE_PROGRESS_INTERVAL_USEC >= pr.now

\* remote_progress(thread, force) with num_units units; last records the call
remote_progress(pr, th, force, units) ==
  LET invoke == units # 1 /\ MustProgress(pr, th, force) IN
  [pr EXCEPT !.last_progress_ts[th] = IF invoke THEN pr.now ELSE @,
             !.last = [th |-> th, force |-> force, invoked |-> invoke,
                       elapsed |-> pr.now - pr.last_progress_ts[th],
                       units |-> units]]

ProgressStep(pr) ==
  /\ progress' = pr
  /\ UNCHANGED <<task, thr, task_queue, task_free_lists, ctxs, glob, hist,
                 lq, qhist, amsgq, copyin, scan, mq, qlock, idle>>

\* current_time_us() advances
Tick ==
  /\ progress.now < MaxTime
  /\ ProgressStep([progress EXCEPT !.now = @ + 1])

\* a call of remote_progress by thread th: from thread_main, yield,
\* task_complete, task_wait or task_test
RemoteProgress(th, force) ==
  ProgressStep(remote_progress(progress, th, force, glob.num_units))

\* ------------------------------------------------------------- the state
\* Two queues after dart_tasking_taskqueue_init and MaxQueued tasks outside.
QueueInit ==
  /\ lq = [next |-> [t \in QTasks |-> NULL], prev |-> [t \in QTasks |-> NULL],
           prio |-> [t \in QTasks |-> "DEFAULT"],
           tq |-> [q \in Queues |-> dart_tasking_taskqueue_init],
           fault |-> FALSE]
  /\ qhist = [where |-> [t \in QTasks |-> "none"],
              pushed |-> [q \in Queues |-> [d \in Deques |-> <<>>]],
              last |-> [op |-> "init", q |-> "dst", t |-> NULL, n |-> 0],
              prio_bad |-> FALSE, order_bad |-> FALSE, move_bad |-> FALSE,
              requeue_bad |-> FALSE]

InitSched(units, pool, nthreads) ==
  /\ task = [t \in {Root} \cup Tasks |-> IF t = Root THEN root_task ELSE NoTask]
  /\ thr = [th \in Threads |-> dart_thread_init(th)]
  /\ task_queue = [high |-> <<>>, low |-> <<>>]
  /\ task_free_lists = [th \in Threads |-> <<>>]
  /\ ctxs = <<>>
  /\ glob = [nfresh |-> 0, ncreated |-> 0, cancel |-> FALSE, crashed |-> FALSE,
             threads_running |-> FALSE, cur_phase |-> DART_PHASE_FIRST,
             runnable_phase |-> DART_PHASE_FIRST, deferred |-> <<>>,
             dep_out |-> NULL, dep_ins |-> {}, waitq |-> {}, refs |-> {},
             num_threads |-> nthreads, num_units |-> units,
             pool |-> pool]
  /\ hist = [preds |-> [t \in Tasks |-> {}], upreds |-> [t \in Tasks |-> {}],
             returned |-> {}, null_release |-> FALSE,
             destroyed_from |-> {}, destroyed_ref |-> FALSE,
             destroyed_children |-> FALSE, was_cancelled |-> {},
             ctx_double |-> FALSE, ctx_foreign |-> FALSE,
             ctx_reuse_busy |-> FALSE, tc_bad |-> FALSE, wrong_dec |-> FALSE,
             zero_returns |-> [t \in {Root} \cup Tasks |-> 0],
             drop_tick |-> FALSE, test_runs |-> 0, test_fin |-> FALSE,
             matching |-> <<>>, yield_passed_high |-> FALSE,
             overflow_warned |-> FALSE, overflow_silent |-> FALSE,
             entered |-> {}, rd_wrong_dec |-> FALSE,
             slot_overwritten |-> FALSE, queued_past_slot |-> FALSE,
             tc_left_detached |-> FALSE,
             create_ret |-> "none"]
  /\ QueueInit
  /\ CopyinInit
  /\ ProgressInit

\* ------------------------------------------- operations on the task queues
RECURSIVE WalkN(_, _, _)
WalkN(l, t, n) ==
  IF t = NULL \/ n = 0 THEN <<>> ELSE <<t>> \o WalkN(l, l.next[t], n - 1)
\* the tasks of a deque from the head along task->next
Walk(l, q, d) == WalkN(l, l.tq[q][d].head, MaxQueued + 1)

Without(sq, t) == SelectSeq(sq, LAMBDA x : x # t)
Has(sq, t) == \E i \in 1 .. Len(sq) : sq[i] = t
PosIn(sq, t) ==
  IF Has(sq, t) THEN CHOOSE i \in 1 .. Len(sq) : sq[i] = t ELSE 0
HoldsHigh(q) == \E u \in QTasks : qhist.where[u] = q /\ lq.prio[u] = "HIGH"

\* a task enters queue q: by push, pushback or insert(pos)
QueueAdd(q, t, prio, op, pos) ==
  /\ qhist.where[t] = "none"
  /\ LET l0 == [lq EXCEPT !.prio[t] = prio]
         d  == DequeOf(l0, t)
     IN /\ lq' = CASE op = "push" -> dart_tasking_taskqueue_push_unsafe(l0, q, t)
                   [] op = "pushback" ->
                        dart_tasking_taskqueue_pushback_unsafe(l0, q, t)
                   [] OTHER -> dart_tasking_taskqueue_insert_unsafe(l0, q, t, pos)
        /\ qhist' = [qhist EXCEPT
                       !.where[t] = q,
                       !.pushed[q][d] = IF op = "push" THEN <<t>> \o @ ELSE @,
                       !.last = [op |-> op, q |-> q, t |-> t,
                                 n |-> Len(Walk(lq, q, d))]]
  /\ UNCHANGED <<task, thr, task_queue, task_free_lists, ctxs, glob, hist, amsgq,
               copyin, progress, scan, mq, qlock, idle>>

QueuePush(q, t, prio)     == QueueAdd(q, t, prio, "push", 0)
QueuePushback(q, t, prio) == QueueAdd(q, t, prio, "pushback", 0)
QueueInsert(q, t, prio, pos) == QueueAdd(q, t, prio, "insert", pos)

\* a task that yielded with the given delay goes back into queue q; the
\* history compares the number of tasks ahead of it with the delay
QueueRequeue(q, t, prio, delay) ==
  /\ qhist.where[t] = "none"
  /\ LET l0 == [lq EXCEPT !.prio[t] = prio]
         d  == DequeOf(l0, t)
         l1 == requeue_task_links(l0, q, t, delay)
         n  == Len(Walk(lq, q, d))
     IN /\ lq' = l1
        /\ qhist' = [qhist EXCEPT
              !.where[t] = q,
              !.pushed[q][d] = IF delay = 0 THEN <<t>> \o @ ELSE @,
              !.requeue_bad = @ \/
                 PosIn(Walk(l1, q, d), t) - 1 #
                   (IF delay = 0 THEN 0
                    ELSE IF delay < 0 \/ n < delay THEN n ELSE delay),
              !.last = [op |-> "requeue", q |-> q, t |-> t, n |-> delay]]
  /\ UNCHANGED <<task, thr, task_queue, task_free_lists, ctxs, glob, hist, amsgq,
               copyin, progress, scan, mq, qlock, idle>>

\* a task leaves queue q at the head (pop) or at the tail (popback)
QueueTake(q, op) ==
  LET r == IF op = "pop" THEN dart_tasking_taskqueue_pop_unsafe(lq, q)
           ELSE dart_tasking_taskqueue_popback_unsafe(lq, q)
  IN /\ r.t # NULL
     /\ lq' = r.l
     /\ LET d  == DequeOf(lq, r.t)
            ps == qhist.pushed[q][d]
        IN qhist' = [qhist EXCEPT
             !.where[r.t] = "none",
             !.pushed[q][d] = Without(@, r.t),
             !.prio_bad = @ \/ (lq.prio[r.t] # "HIGH" /\ HoldsHigh(q)),
             !.order_bad = @ \/ (Has(ps, r.t) /\
                                 r.t # (IF op = "pop" THEN ps[1] ELSE ps[Len(ps)])),
             !.last = [op |-> op, q |-> q, t |-> r.t,
                       n |-> IF Has(ps, r.t) THEN Len(ps) ELSE 0]]
     /\ UNCHANGED <<task, thr, task_queue, task_free_lists, ctxs, glob, hist, amsgq,
               copyin, progress, scan, mq, qlock, idle>>

QueuePop(q)     == QueueTake(q, "pop")
QueuePopback(q) == QueueTake(q, "popback")

\* remove(q, t) for a task that is in q
QueueRemove(q, t) ==
  /\ qhist.where[t] = q
  /\ lq' = dart_tasking_taskqueue_remove_unsafe(lq, q, t)
  /\ qhist' = [qhist EXCEPT
       !.where[t] = "none",
       !.pushed[q][DequeOf(lq, t)] = Without(@, t),
       !.last = [op |-> "remove", q |-> q, t |-> t,
                 n |-> PosIn(Walk(lq, q, DequeOf(lq, t)), t)]]
  /\ UNCHANGED <<task, thr, task_queue, task_free_lists, ctxs, glob, hist, amsgq,
               copyin, progress, scan, mq, qlock, idle>>

\* dart_tasking_taskqueue_move_unsafe(dst, src) on lq, and its history
QueueMoveLinks(dst, src) ==
  LET l1 == dart_tasking_taskqueue_move_unsafe(lq, dst, src) IN
  /\ lq' = l1
  /\ qhist' = [qhist EXCEPT
       !.where = [t \in QTasks |-> IF @[t] = src THEN dst ELSE @[t]],
       !.pushed[src] = [d \in Deques |-> <<>>],
       !.move_bad = @ \/ \E d \in Deques :
           \/ Walk(l1, dst, d) # Walk(lq, src, d) \o Walk(lq, dst, d)
           \/ l1.tq[src][d] # EmptyDeque,
       !.last = [op |-> "move", q |-> dst, t |-> NULL,
                 n |-> IF \A d \in Deques : Walk(lq, dst, d) # <<>>
                       THEN Len(Walk(lq, src, "highprio"))
                            + Len(Walk(lq, src, "lowprio"))
                       ELSE 0]]

\* move(dst, src) for two different queues
QueueMove(dst, src) ==
  /\ dst # src
  /\ QueueMoveLinks(dst, src)
  /\ UNCHANGED <<task, thr, task_queue, task_free_lists, ctxs, glob, hist, amsgq,
               copyin, progress, scan, mq, qlock, idle>>

\* ------------------------------------------------- the mutexes of the queues
\* dart_tasking_taskqueue_push, pop and move take tq->mutex around the
\* operation.  mutex[q] is the thread that holds the mutex of queue q; a
\* thread in move holds the mutex of dst while it waits for the one of src.
QLockInit ==
  qlock = [mutex |-> [q \in Queues |-> NULL],
           pc |-> [th \in Threads |-> "idle"],
           dst |-> [th \in Threads |-> "dst"],
           src |-> [th \in Threads |-> "src"]]

\* lock(&tq->mutex); push_unsafe(tq, task); unlock(&tq->mutex)
LockedPush(th, q, t) ==
  /\ qlock.pc[th] = "idle" /\ qlock.mutex[q] = NULL
  /\ QueuePush(q, t, "DEFAULT")

\* lock(&tq->mutex); pop_unsafe(tq); unlock(&tq->mutex)
LockedPop(th, q) ==
  /\ qlock.pc[th] = "idle" /\ qlock.mutex[q] = NULL
  /\ QueuePop(q)

\* dart_tasking_taskqueue_move: dart__base__mutex_lock(&dst->mutex)
MoveLockDst(th, dst, src) ==
  /\ dst # src
  /\ qlock.pc[th] = "idle" /\ qlock.mutex[dst] = NULL
  /\ qlock' = [qlock EXCEPT !.mutex[dst] = th, !.pc[th] = "lock_src",
                             !.dst[th] = dst, !.src[th] = src]
  /\ UNCHANGED <<task, thr, task_queue, task_free_lists, ctxs, glob, hist,
                 lq, qhist, amsgq, copyin, progress, scan, mq, idle>>

\* dart__base__mutex_lock(&src->mutex); move_unsafe(dst, src); both mutexes
\* are released
MoveLockSrc(th) ==
  /\ qlock.pc[th] = "lock_src" /\ qlock.mutex[qlock.src[th]] = NULL
  /\ QueueMoveLinks(qlock.dst[th], qlock.src[th])
  /\ qlock' = [qlock EXCEPT !.mutex[qlock.dst[th]] = NULL, !.pc[th] = "idle"]
  /\ UNCHANGED <<task, thr, task_queue, task_free_lists, ctxs, glob, hist,
                 amsgq, copyin, progress, scan, mq, idle>>

\* ------------------------------------------- next_task on several NUMA nodes
\* The scheduler above runs on one NUMA node with THREAD_QUEUE_SIZE hot slots.
\* Here next_task is applied to ScanNumThreads threads with ScanQueueSize hot
\* slots each, spread over up to MaxNumaNodes nodes with one queue per node.
\* A task is named by the place it was put in; a place is full or empty.
ScanNumThreads == 3
ScanQueueSize  == 2
MaxNumaNodes   == 2
ScanThreads == 0 .. (ScanNumThreads - 1)
ScanSlots   == 1 .. ScanQueueSize
NumaNodes   == 0 .. (MaxNumaNodes - 1)

NoTaskFound == <<"null">>
NextPlace   == <<"next_task">>
SlotPlace(v, i) == <<"queue", v, i>>
NumaPlace(n)    == <<"task_queue", n>>

\* the threads start with last_steal_thread_id = 0 and nothing to run
ScanOpen(caller, nodes, numa) ==
  [thread_id |-> caller, num_numa_nodes |-> nodes, numa_id |-> numa,
   queue |-> [v \in ScanThreads |-> [i \in ScanSlots |-> FALSE]],
   next_task |-> FALSE,
   task_queue |-> [n \in NumaNodes |-> FALSE],
   last_steal_thread_id |-> 0,
   ret |-> <<"none">>]

\* no thread calls next_task: the state of scan in the other specifications
NoScan == ScanOpen(0, 1, [v \in ScanThreads |-> 0])

ScanStep(sc) ==
  /\ scan' = sc
  /\ UNCHANGED <<task, thr, task_queue, task_free_lists, ctxs, glob, hist,
                 lq, qhist, amsgq, copyin, progress, mq, qlock, idle>>

\* for (i = 0; i < THREAD_QUEUE_SIZE; ++i): the first full slot of thread v
next_task_thread_numa(sc, v) ==
  LET full == {i \in ScanSlots : sc.queue[v][i]} IN
  IF full = {} THEN [sc |-> sc, t |-> NoTaskFound]
  ELSE LET i == CHOOSE i \in full : \A j \in full : i <= j
       IN [sc |-> [sc EXCEPT !.queue[v][i] = FALSE], t |-> SlotPlace(v, i)]

\* variant of next_task_thread_back_numa: the victim is scanned from the front
steal_from_front(sc, v) == next_task_thread_numa(sc, v)

\* for (i = THREAD_QUEUE_SIZE-1; i >= 0; --i): the last full slot of thread v
next_task_thread_back_numa(sc, v) ==
  LET full == {i \in ScanSlots : sc.queue[v][i]} IN
  IF full = {} THEN [sc |-> sc, t |-> NoTaskFound]
  ELSE LET i == CHOOSE i \in full : \A j \in full : i >= j
       IN [sc |-> [sc EXCEPT !.queue[v][i] = FALSE], t |-> SlotPlace(v, i)]

\* the k-th target of the steal loops: (thread_id + 1) % num_threads, ...
ScanTarget(sc, k) == (sc.thread_id + k) % ScanNumThreads

\* one of the two steal loops: over the threads on the same NUMA node as the
\* caller, or over the threads on the other nodes
steal_loop(sc, same) ==
  LET ks == {k \in 1 .. (ScanNumThreads - 1) :
               /\ (sc.numa_id[ScanTarget(sc, k)] = sc.numa_id[sc.thread_id])
                    = same
               /\ \E i \in ScanSlots : sc.queue[ScanTarget(sc, k)][i]}
  IN
  IF ks = {} THEN [sc |-> sc, t |-> NoTaskFound]
  ELSE LET k == CHOOSE k \in ks : \A j \in ks : k <= j
           r == next_task_thread_back_numa(sc, ScanTarget(sc, k))
       IN [sc |-> [r.sc EXCEPT !.last_steal_thread_id = ScanTarget(sc, k)],
           t |-> r.t]

\* do { pop(&task_queue[(numa_id + i) % num_numa_nodes]); ++i; } while (...)
numa_queues_pop(sc) ==
  LET is == {i \in 0 .. (sc.num_numa_nodes - 1) :
               sc.task_queue[(sc.numa_id[sc.thread_id] + i)
                               % sc.num_numa_nodes]}
  IN
  IF is = {} THEN [sc |-> sc, t |-> NoTaskFound]
  ELSE LET i == CHOOSE i \in is : \A j \in is : i <= j
           n == (sc.numa_id[sc.thread_id] + i) % sc.num_numa_nodes
       IN [sc |-> [sc EXCEPT !.task_queue[n] = FALSE], t |-> NumaPlace(n)]

next_task_numa(sc) ==
  LET own   == IF sc.next_task
               THEN [sc |-> [sc EXCEPT !.next_task = FALSE], t |-> NextPlace]
               ELSE next_task_thread_numa(sc, sc.thread_id)
      last  == next_task_thread_back_numa(sc, sc.last_steal_thread_id)
      same  == steal_loop(sc, TRUE)
      numa  == numa_queues_pop(sc)
      other == steal_loop(sc, FALSE)
  IN
  IF own.t # NoTaskFound THEN own
  ELSE IF last.t # NoTaskFound THEN last
  ELSE IF same.t # NoTaskFound THEN same
  ELSE IF numa.t # NoTaskFound THEN numa
  ELSE IF sc.num_numa_nodes > 1 /\ other.t # NoTaskFound THEN other
  ELSE [sc |-> sc, t |-> NoTaskFound]

\* the calling thread calls next_task; ret is what the call returned
ScanNextTask ==
  LET r == next_task_numa(scan) IN ScanStep([r.sc EXCEPT !.ret = r.t])

\* enqueue_runnable and yield fill the places: a hot slot of any thread, the
\* caller's next_task, the queue of a NUMA node
ScanPut ==
  \/ \E v \in ScanThreads, i \in ScanSlots :
       /\ ~scan.queue[v][i]
       /\ ScanStep([scan EXCEPT !.queue[v][i] = TRUE])
  \/ /\ ~scan.next_task
     /\ ScanStep([scan EXCEPT !.next_task = TRUE])
  \/ \E n \in 0 .. (scan.num_numa_nodes - 1) :
       /\ ~scan.task_queue[n]
       /\ ScanStep([scan EXCEPT !.task_queue[n] = TRUE])

\* any thread may be the caller; the threads are spread over the nodes
ScanInit ==
  \E caller \in ScanThreads, nodes \in 1 .. MaxNumaNodes :
    \E numa \in [ScanThreads -> 0 .. (nodes - 1)] :
      scan = ScanOpen(caller, nodes, numa)

\* -------------------------------------- the request slots of a message queue
\* One message queue of one process, seen by AqNumThreads of its threads:
\* msg_count persistent receive requests, msg_count send requests handed out
\* through send_tailpos (buffered sends: direct_send is false), the two
\* mutexes.  The other processes appear as the messages that arrive, the
\* sends that complete and the collective that ends a round.
AqMsgCount   == 3
AqNumThreads == 2
MaxRecv      == 3
MaxSend      == 4
AqSlots   == 0 .. (AqMsgCount - 1)
AqThreads == 0 .. (AqNumThreads - 1)
AqMsgs    == 1 .. MaxRecv

\* dart_amsg_sendrecv_openq: the receives are started, the send requests are
\* MPI_REQUEST_NULL, the struct is zeroed (calloc)
AqOpen ==
  [recv_reqs |-> [i \in AqSlots |-> [st |-> "active", m |-> 0]],
   send_reqs |-> [i \in AqSlots |-> "MPI_REQUEST_NULL"],
   send_tailpos |-> 0,
   send_mutex |-> NULL, processing_mutex |-> NULL,
   pc |-> [th \in AqThreads |-> "idle"],
   blocking |-> [th \in AqThreads |-> FALSE],
   has_lock |-> [th \in AqThreads |-> FALSE],
   recv_outidx |-> <<>>, num_msg |-> [th \in AqThreads |-> 0],
   idx |-> [th \in AqThreads |-> 0],
   send_flag |-> [th \in AqThreads |-> FALSE],
   req |-> [th \in AqThreads |-> FALSE],
   barrier_flag |-> [th \in AqThreads |-> FALSE],
   ret |-> [th \in AqThreads |-> "none"],
   narrived |-> 0, nsent |-> 0,
   dispatched |-> [m \in AqMsgs |-> 0],
   again_tick |-> FALSE,
   slot_reused |-> FALSE, tail_unlocked |-> FALSE, overrun |-> FALSE,
   again_wrong |-> FALSE, unordered |-> FALSE]

AqStep(q) ==
  /\ mq' = q
  /\ UNCHANGED <<task, thr, task_queue, task_free_lists, ctxs, glob, hist,
                 lq, qhist, amsgq, copyin, progress, scan, qlock, idle>>

\* the orders in which MPI_Testsome may report the requests of a set
AqOrders(S) ==
  {o \in [1 .. Cardinality(S) -> S] :
     \A i, j \in 1 .. Cardinality(S) : i # j => o[i] # o[j]}

\* MPI: a message matches a started receive
AqArrive ==
  /\ mq.narrived < MaxRecv
  /\ \E i \in AqSlots :
       /\ mq.recv_reqs[i].st = "active"
       /\ AqStep([mq EXCEPT !.narrived = @ + 1,
                            !.recv_reqs[i] = [st |-> "matched", m |-> mq.narrived + 1]])

\* dart_amsg_sendrecv_process: amsg_sendrecv_process_internal(false, false);
\* the trylock of the processing mutex fails or succeeds
AqProcess(th) ==
  /\ mq.pc[th] = "idle"
  /\ AqStep(IF mq.processing_mutex # NULL
            THEN [mq EXCEPT !.ret[th] = "DART_ERR_AGAIN", !.again_tick = ~@]
            ELSE [mq EXCEPT !.processing_mutex = th, !.pc[th] = "testsome",
                            !.blocking[th] = FALSE, !.has_lock[th] = FALSE])

\* MPI_Testsome(msg_count, recv_reqs, &outcount, recv_outidx, recv_status):
\* the completed receives are reported in some order and become inactive
AqTestsome(th) ==
  /\ mq.pc[th] = "testsome"
  /\ LET done == {i \in AqSlots : mq.recv_reqs[i].st = "matched"} IN
     \E o \in AqOrders(done) :
       AqStep([mq EXCEPT
                 !.recv_reqs = [i \in AqSlots |->
                                  IF i \in done THEN [@[i] EXCEPT !.st = "inactive"]
                                  ELSE @[i]],
                 !.recv_outidx = o, !.num_msg[th] = 0, !.pc[th] = "dispatch"])

\* variant of MPI_Start: the receive is not started again
MPI_Start_skipped(q, i) == q

\* MPI_Start(&recv_reqs[idx]): the persistent receive is active again
MPI_Start(q, i) == [q EXCEPT !.recv_reqs[i] = [st |-> "active", m |-> 0]]

\* the body of the for loop, once for every reported receive: the message is
\* handed to dart__amsgq__process_buffer and the receive is posted again;
\* after the loop the pass is repeated (blocking) or the call returns
AqDispatch(th) ==
  /\ mq.pc[th] = "dispatch"
  /\ AqStep(
       IF mq.recv_outidx # <<>>
       THEN LET i == Head(mq.recv_outidx) IN
            [MPI_Start(mq, i) EXCEPT !.dispatched[mq.recv_reqs[i].m] = @ + 1,
                                     !.num_msg[th] = @ + 1,
                                     !.recv_outidx = Tail(@)]
       ELSE IF mq.blocking[th] /\ mq.num_msg[th] > 0
       THEN [mq EXCEPT !.pc[th] = "testsome"]
       ELSE IF mq.has_lock[th]
       THEN [mq EXCEPT !.pc[th] = "barrier_test"]
       ELSE [mq EXCEPT !.processing_mutex = NULL, !.pc[th] = "idle",
                       !.ret[th] = "DART_OK"])

\* MPI: a send request completes (the message was taken by its target)
AqSendComplete ==
  \E i \in AqSlots :
    /\ mq.send_reqs[i] = "pending"
    /\ AqStep([mq EXCEPT !.send_reqs[i] = "complete"])

\* while (back_pos > done_idx && send_reqs[back_pos] == MPI_REQUEST_NULL)
RECURSIVE SkipFree(_, _, _)
SkipFree(reqs, back_pos, done_idx) ==
  IF back_pos > done_idx /\ reqs[back_pos] = "MPI_REQUEST_NULL"
  THEN SkipFree(reqs, back_pos - 1, done_idx)
  ELSE back_pos

\* the for loop of amsgq_test_sendreqs_unsafe from outidx k on: the requests
\* at the back are moved to the spots that became free
RECURSIVE MoveToFront(_, _, _, _)
MoveToFront(reqs, outidx, k, back_pos) ==
  IF k > Len(outidx) THEN reqs
  ELSE LET done_idx == outidx[k]
           bp       == SkipFree(reqs, back_pos, done_idx)
       IN IF done_idx >= bp THEN reqs
          ELSE MoveToFront([reqs EXCEPT ![done_idx] = reqs[bp],
                                        ![bp] = "MPI_REQUEST_NULL"],
                           outidx, k + 1, bp - 1)

\* the send requests MPI_Testsome or MPI_Testall finds complete among the
\* first send_tailpos ones
AqSendsDone(q) ==
  {i \in AqSlots : i < q.send_tailpos /\ q.send_reqs[i] = "complete"}

\* amsgq_test_sendreqs_unsafe; outidx is send_outidx as MPI_Testsome filled
\* it, the completed requests are MPI_REQUEST_NULL after the test
amsgq_test_sendreqs_unsafe(q, outidx) ==
  LET outcount == Len(outidx)
      tested   == [i \in AqSlots |-> IF i \in AqSendsDone(q)
                                     THEN "MPI_REQUEST_NULL" ELSE q.send_reqs[i]]
  IN
  IF outcount > 0
  THEN IF outcount = q.send_tailpos
       THEN [q |-> [q EXCEPT !.send_reqs = tested, !.send_tailpos = 0],
             ret |-> "DART_OK"]
       ELSE [q |-> [q EXCEPT
                      !.send_reqs = MoveToFront(tested, outidx, 1, AqMsgCount - 1),
                      !.send_tailpos = @ - outcount],
             ret |-> "DART_OK"]
  ELSE [q |-> q, ret |-> "DART_ERR_AGAIN"]

\* dart_amsg_sendrecv_trysend, buffered: dart__base__mutex_lock(&send_mutex)
AqTrysendLock(th) ==
  /\ mq.pc[th] = "idle" /\ mq.nsent < MaxSend
  /\ mq.send_mutex = NULL
  /\ AqStep([mq EXCEPT !.send_mutex = th, !.pc[th] = "ts_test"])

\* if (send_tailpos == msg_count): the search for a free handle; the call
\* returns what the search returned if that is not DART_OK.  History:
\* again_wrong tells a return of DART_ERR_AGAIN while a slot held no
\* uncompleted request, or a search that went on while none did
AqTrysendTest(th) ==
  /\ mq.pc[th] = "ts_test"
  /\ IF mq.send_tailpos = AqMsgCount
     THEN \E o \in AqOrders(AqSendsDone(mq)) :
            LET r == amsgq_test_sendreqs_unsafe(mq, o)
                full == \A i \in AqSlots : mq.send_reqs[i] = "pending"
                asc == \A i, j \in 1 .. Len(o) : i < j => o[i] < o[j]
            IN AqStep(
                 IF r.ret # "DART_OK"
                 THEN [r.q EXCEPT !.send_mutex = NULL, !.pc[th] = "idle",
                                  !.ret[th] = r.ret,
                                  !.again_wrong = @ \/ ~full]
                 ELSE [r.q EXCEPT !.pc[th] = "ts_claim",
                                  !.again_wrong = @ \/ full,
                                  !.unordered = @ \/ ~asc])
     ELSE AqStep([mq EXCEPT !.pc[th] = "ts_claim",
                            !.again_wrong =
                               @ \/ \A i \in AqSlots : mq.send_reqs[i] = "pending"])

\* int idx = amsgq->send_tailpos++;
AqTrysendClaim(th) ==
  /\ mq.pc[th] = "ts_claim"
  /\ AqStep([mq EXCEPT !.idx[th] = mq.send_tailpos,
                       !.send_tailpos = @ + 1,
                       !.tail_unlocked = @ \/ mq.send_mutex # th,
                       !.pc[th] = "ts_send"])

\* memcpy into send_bufs[idx], MPI_Issend or MPI_Isend with send_reqs[idx],
\* the mutex is released and DART_OK returned.  History: slot_reused tells
\* that the request the slot held had not completed
AqTrysendSend(th) ==
  /\ mq.pc[th] = "ts_send"
  /\ LET i == mq.idx[th] IN
     AqStep(IF i \in AqSlots
            THEN [mq EXCEPT !.send_reqs[i] = "pending", !.nsent = @ + 1,
                            !.slot_reused = @ \/ mq.send_reqs[i] = "pending",
                            !.send_mutex = NULL, !.pc[th] = "idle",
                            !.ret[th] = "DART_OK"]
            ELSE [mq EXCEPT !.overrun = TRUE, !.nsent = @ + 1,
                            !.send_mutex = NULL, !.pc[th] = "idle",
                            !.ret[th] = "DART_OK"])

\* dart_amsg_sendrevc_process_blocking: the processing mutex is taken and
\* amsg_sendrecv_process_internal(amsgq, true, true) called
AqRoundLock(th) ==
  /\ mq.pc[th] = "idle"
  /\ mq.processing_mutex = NULL
  /\ AqStep([mq EXCEPT !.processing_mutex = th, !.pc[th] = "testsome",
                       !.blocking[th] = TRUE, !.has_lock[th] = TRUE,
                       !.send_flag[th] = FALSE, !.req[th] = FALSE,
                       !.barrier_flag[th] = FALSE])

\* if (req != MPI_REQUEST_NULL) MPI_Test(&req, &barrier_flag): the collective
\* has completed or not, as the other processes have entered it or not
AqRoundBarrierTest(th) ==
  /\ mq.pc[th] = "barrier_test"
  /\ \E b \in BOOLEAN :
       /\ ~mq.req[th] => ~b
       /\ AqStep([mq EXCEPT !.barrier_flag[th] = b,
                            !.req[th] = @ /\ ~b,
                            !.pc[th] = IF mq.send_flag[th] THEN "loop"
                                       ELSE "testall"])

\* if (!send_flag): lock(&send_mutex); MPI_Testall(send_tailpos, send_reqs,
\* &send_flag); unlock(&send_mutex)
AqRoundTestall(th) ==
  /\ mq.pc[th] = "testall"
  /\ mq.send_mutex = NULL
  /\ LET flag == \A i \in AqSlots :
                   i < mq.send_tailpos => mq.send_reqs[i] # "pending"
     IN AqStep([mq EXCEPT
                  !.send_reqs = IF flag
                                THEN [i \in AqSlots |->
                                        IF i \in AqSendsDone(mq)
                                        THEN "MPI_REQUEST_NULL" ELSE @[i]]
                                ELSE @,
                  !.send_flag[th] = flag,
                  !.pc[th] = IF flag THEN "reset" ELSE "loop"])

\* if (send_flag) { send_tailpos = 0; }  and the collective is started
AqRoundReset(th) ==
  /\ mq.pc[th] = "reset"
  /\ AqStep([mq EXCEPT !.send_tailpos = 0,
                       !.tail_unlocked = @ \/ mq.send_mutex # th,
                       !.req[th] = TRUE, !.pc[th] = "loop"])

\* while (!(barrier_flag && send_flag)); after the loop the final barrier,
\* the processing mutex is released and DART_OK returned
AqRoundLoop(th) ==
  /\ mq.pc[th] = "loop"
  /\ AqStep(IF mq.barrier_flag[th] /\ mq.send_flag[th]
            THEN [mq EXCEPT !.processing_mutex = NULL, !.pc[th] = "idle",
                            !.ret[th] = "DART_OK"]
            ELSE [mq EXCEPT !.pc[th] = "testsome"])

\* ------------------------------------------------------- the idle policy
\* thread_main, wait_for_work, the two wake-ups, task_complete and
\* stop_threads, with a task reduced to where it is: not created, in the hot
\* slot of a thread, in the queue of the NUMA node, running, waiting for its
\* children, or done.  Thread 0 is the master.  pc[th] is the statement the
\* thread is at; stack[th] holds the tasks the thread is in, innermost first;
\* slot_of[t] is the thread whose hot slot took the task, NoHolder for a task
\* that went to the queue.
IdleNumThreads == 4
IdleTasks == 3
IdleQueueSize == 1
IdleThreads == 0 .. (IdleNumThreads - 1)
IdleWorkers == 1 .. (IdleNumThreads - 1)
IdleTaskIds == 1 .. IdleTasks
IdleRoot == 0
IdleMethods ==
  {"DART_THREAD_IDLE_POLL", "DART_THREAD_IDLE_USLEEP", "DART_THREAD_IDLE_WAIT"}
NoHolder == IdleNumThreads

\* start_threads: parallel = true, every worker enters its loop
IdleOpen(method) ==
  [thread_idle_method |-> method,
   parallel |-> TRUE,
   thread_pool_mutex |-> NoHolder,
   task_avail_cond |-> {},
   pc |-> [th \in IdleThreads |-> IF th = 0 THEN "root" ELSE "loop"],
   where |-> [t \in IdleTaskIds |-> "none"],
   slot_of |-> [t \in IdleTaskIds |-> 0],
   parent |-> [t \in IdleTaskIds |-> IdleRoot],
   num_children |-> [t \in 0 .. IdleTasks |-> 0],
   stack |-> [th \in IdleThreads |-> <<>>],
   in_idle |-> [th \in IdleThreads |-> FALSE],
   join |-> 0,
   completing |-> FALSE,
   lost |-> FALSE,
   stop_saw |-> {}]

NoIdle == IdleOpen("DART_THREAD_IDLE_POLL")

IdleStep(q) ==
  /\ idle' = q
  /\ UNCHANGED <<task, thr, task_queue, task_free_lists, ctxs, glob, hist, lq,
                 qhist, amsgq, copyin, progress, scan, mq, qlock>>

IdleWait(q) == q.thread_idle_method = "DART_THREAD_IDLE_WAIT"

\* get_current_task
IdleCurrent(q, th) ==
  IF q.stack[th] = <<>> THEN IdleRoot ELSE Head(q.stack[th])

\* where a thread goes on after it created a task
IdleResume(q, th) == IF q.stack[th] = <<>> THEN "root" ELSE "body"

\* pthread_cond_signal: one of the threads in the wait, if there is one,
\* leaves it and goes for the mutex
pthread_cond_signal(q) ==
  IF q.task_avail_cond = {} THEN {[q EXCEPT !.lost = TRUE]}
  ELSE {[q EXCEPT !.task_avail_cond = @ \ {w}, !.pc[w] = "cond_relock"] :
          w \in q.task_avail_cond}

\* pthread_cond_broadcast: every thread in the wait leaves it
pthread_cond_broadcast(q) ==
  [q EXCEPT !.task_avail_cond = {},
            !.pc = [th \in IdleThreads |->
                      IF th \in q.task_avail_cond THEN "cond_relock"
                      ELSE q.pc[th]],
            !.lost = @ \/ q.task_avail_cond = {}]

IdleInSlot(q, th) ==
  {t \in IdleTaskIds : q.where[t] = "slot" /\ q.slot_of[t] = th}

\* enqueue_runnable: a free hot slot of the thread takes the task and no
\* wake-up is sent; otherwise the task goes to the queue and
\* wakeup_thread_single follows
IdleEnqueue(q, th, t) ==
  IF Cardinality(IdleInSlot(q, th)) < IdleQueueSize
  THEN [q EXCEPT !.where[t] = "slot", !.slot_of[t] = th]
  ELSE [q EXCEPT !.where[t] = "queue", !.slot_of[t] = NoHolder,
                 !.pc[th] = IF IdleWait(q) THEN "wake_lock" ELSE @]

\* create_task: the task is a child of the current task of the thread
IdleCreateTask(th) ==
  /\ idle.pc[th] \in {"root", "body"}
  /\ \E t \in IdleTaskIds :
       /\ idle.where[t] = "none"
       /\ \A u \in IdleTaskIds : u < t => idle.where[u] # "none"
       /\ LET p == IdleCurrent(idle, th)
              q1 == [idle EXCEPT !.parent[t] = p, !.num_children[p] = @ + 1]
          IN IdleStep(IdleEnqueue(q1, th, t))

\* wakeup_thread_single: pthread_mutex_lock
IdleWakeLock(th) ==
  /\ idle.pc[th] = "wake_lock"
  /\ idle.thread_pool_mutex = NoHolder
  /\ IdleStep([idle EXCEPT !.thread_pool_mutex = th, !.pc[th] = "wake_signal"])

\* wakeup_thread_single: pthread_cond_signal, pthread_mutex_unlock
IdleWakeSignal(th) ==
  /\ idle.pc[th] = "wake_signal"
  /\ \E q \in pthread_cond_signal(idle) :
       IdleStep([q EXCEPT !.thread_pool_mutex = NoHolder,
                          !.pc[th] = IdleResume(idle, th)])

\* next_task with one NUMA node: the own slots, then the slots of the other
\* threads, then the queue; the tasks the call may return
IdleNextTaskOwn(q, th) == IdleInSlot(q, th)

IdleNextTask(q, th) ==
  LET own   == IdleInSlot(q, th)
      steal == {t \in IdleTaskIds : q.where[t] = "slot"}
      numa  == {t \in IdleTaskIds : q.where[t] = "queue"}
  IN IF own # {} THEN own ELSE IF steal # {} THEN steal ELSE numa

\* handle_task: the task is RUNNING and the current task of the thread
IdleRun(q, th, t) ==
  [q EXCEPT !.where[t] = "run", !.stack[th] = <<t>> \o @, !.pc[th] = "body",
            !.in_idle[th] = FALSE]

\* the end of handle_task: FINISHED, the parent has one child less, the
\* thread is back in what it was in
IdleFinish(q, th) ==
  LET t == Head(q.stack[th])
      rest == Tail(q.stack[th])
  IN [q EXCEPT !.where[t] = "done",
               !.num_children[q.parent[t]] = @ - 1,
               !.stack[th] = rest,
               !.pc[th] = IF rest = <<>> /\ th # 0 THEN "loop" ELSE "tc_loop"]

\* wait_for_work without the test of parallel
wait_always(q, th) ==
  [q EXCEPT !.thread_pool_mutex = NoHolder,
            !.task_avail_cond = @ \cup {th}, !.pc[th] = "cond_wait"]

\* wait_for_work under the mutex: if (parallel) pthread_cond_wait, which
\* gives the mutex up for the time of the wait
wait_for_work(q, th) ==
  IF q.parallel
  THEN [q EXCEPT !.thread_pool_mutex = NoHolder,
                 !.task_avail_cond = @ \cup {th}, !.pc[th] = "cond_wait"]
  ELSE [q EXCEPT !.pc[th] = "wfw_unlock"]

\* one turn of the loop of thread_main
IdleLoop(th) ==
  /\ th \in IdleWorkers
  /\ idle.pc[th] = "loop"
  /\ IF ~idle.parallel THEN IdleStep([idle EXCEPT !.pc[th] = "exit"])
     ELSE IF IdleNextTask(idle, th) # {}
     THEN \E t \in IdleNextTask(idle, th) : IdleStep(IdleRun(idle, th, t))
     ELSE IF th = 1 THEN IdleStep(idle)
     ELSE IF ~idle.in_idle[th]
     THEN IdleStep([idle EXCEPT !.in_idle[th] = TRUE])
     ELSE \/ IdleStep(idle)
          \/ IdleStep(IF IdleWait(idle)
                      THEN [idle EXCEPT !.pc[th] = "wfw_lock"]
                      ELSE [idle EXCEPT !.in_idle[th] = FALSE])

\* wait_for_work: pthread_mutex_lock
IdleWfwLock(th) ==
  /\ idle.pc[th] = "wfw_lock"
  /\ idle.thread_pool_mutex = NoHolder
  /\ IdleStep([idle EXCEPT !.thread_pool_mutex = th, !.pc[th] = "wfw_test"])

IdleWfwTest(th) ==
  /\ idle.pc[th] = "wfw_test"
  /\ IdleStep(wait_for_work(idle, th))

\* pthread_cond_wait returns with the mutex
IdleRelock(th) ==
  /\ idle.pc[th] = "cond_relock"
  /\ idle.thread_pool_mutex = NoHolder
  /\ IdleStep([idle EXCEPT !.thread_pool_mutex = th, !.pc[th] = "wfw_unlock"])

\* wait_for_work: pthread_mutex_unlock; thread_main: in_idle = false
IdleWfwUnlock(th) ==
  /\ idle.pc[th] = "wfw_unlock"
  /\ IdleStep([idle EXCEPT !.thread_pool_mutex = NoHolder,
                           !.in_idle[th] = FALSE, !.pc[th] = "loop"])

\* the function of the task returns: a task with children waits for them in
\* task_complete(true), which starts with the broadcast
IdleBodyEnd(th) ==
  /\ idle.pc[th] = "body"
  /\ LET t == Head(idle.stack[th])
     IN IF idle.num_children[t] > 0
        THEN LET q == IF IdleWait(idle) THEN pthread_cond_broadcast(idle)
                      ELSE idle
             IN IdleStep([q EXCEPT !.where[t] = "wait", !.pc[th] = "tc_loop"])
        ELSE IdleStep(IdleFinish(idle, th))

\* task_complete on the root task: the broadcast, sent without the mutex
IdleTaskComplete ==
  /\ idle.pc[0] = "root"
  /\ LET q == IF IdleWait(idle) THEN pthread_cond_broadcast(idle) ELSE idle
     IN IdleStep([q EXCEPT !.pc[0] = "tc_loop", !.completing = TRUE])

\* one turn of while (task->num_children > 0) in task_complete
IdleTcLoop(th) ==
  /\ idle.pc[th] = "tc_loop"
  /\ IF idle.num_children[IdleCurrent(idle, th)] = 0
     THEN IF idle.stack[th] = <<>>
          THEN IdleStep([idle EXCEPT !.pc[th] = "tc_done",
                                     !.completing = FALSE])
          ELSE IdleStep(IdleFinish(idle, th))
     ELSE IF IdleNextTask(idle, th) # {}
     THEN \E t \in IdleNextTask(idle, th) : IdleStep(IdleRun(idle, th, t))
     ELSE IdleStep(idle)

\* after task_complete the master creates tasks again or shuts down
IdleAfterComplete ==
  /\ idle.pc[0] = "tc_done"
  /\ \/ /\ \E t \in IdleTaskIds : idle.where[t] = "none"
        /\ IdleStep([idle EXCEPT !.pc[0] = "root"])
     \/ IdleStep([idle EXCEPT !.pc[0] = "stop_lock"])

\* stop_threads: pthread_mutex_lock
IdleStopLock ==
  /\ idle.pc[0] = "stop_lock"
  /\ idle.thread_pool_mutex = NoHolder
  /\ IdleStep([idle EXCEPT !.thread_pool_mutex = 0, !.pc[0] = "stop_set"])

\* stop_threads: parallel = false; pthread_mutex_unlock
IdleStopSet ==
  /\ idle.pc[0] = "stop_set"
  /\ IdleStep([idle EXCEPT !.parallel = FALSE,
                           !.thread_pool_mutex = NoHolder,
                           !.pc[0] = "wakeall_lock",
                           !.stop_saw = {idle.pc[w] : w \in IdleWorkers}])

\* where stop_threads goes on after a wakeup_thread_all: the first one is
\* followed by the loop, the one in the loop by the join
IdleAfterWakeAll(q) ==
  IF q.join = 0 THEN [q EXCEPT !.join = 1, !.pc[0] = "wakeall_lock"]
  ELSE [q EXCEPT !.pc[0] = "join"]

\* wakeup_thread_all: nothing unless the method is WAIT; pthread_mutex_lock
IdleWakeAllLock ==
  /\ idle.pc[0] = "wakeall_lock"
  /\ IF IdleWait(idle)
     THEN /\ idle.thread_pool_mutex = NoHolder
          /\ IdleStep([idle EXCEPT !.thread_pool_mutex = 0,
                                   !.pc[0] = "wakeall_bcast"])
     ELSE IdleStep(IdleAfterWakeAll(idle))

\* wakeup_thread_all: pthread_cond_broadcast, pthread_mutex_unlock
IdleWakeAllBcast ==
  /\ idle.pc[0] = "wakeall_bcast"
  /\ IdleStep(IdleAfterWakeAll(
       [pthread_cond_broadcast(idle) EXCEPT !.thread_pool_mutex = NoHolder]))

\* pthread_join(thread_pool[i]) returns when thread i has left thread_main
IdleJoin ==
  /\ idle.pc[0] = "join"
  /\ idle.pc[idle.join] = "exit"
  /\ IdleStep([idle EXCEPT !.join = @ + 1,
                           !.pc[0] = IF idle.join + 1 < IdleNumThreads
                                     THEN "wakeall_lock" ELSE "stopped"])

\* the steps of one thread
IdleThread(th) ==
  \/ IdleCreateTask(th)
  \/ IdleWakeLock(th)
  \/ IdleWakeSignal(th)
  \/ IdleLoop(th)
  \/ IdleWfwLock(th)
  \/ IdleWfwTest(th)
  \/ IdleRelock(th)
  \/ IdleWfwUnlock(th)
  \/ IdleBodyEnd(th)
  \/ IdleTcLoop(th)
  \/ (th = 0 /\ IdleTaskComplete)
  \/ (th = 0 /\ IdleAfterComplete)
  \/ (th = 0 /\ IdleStopLock)
  \/ (th = 0 /\ IdleStopSet)
  \/ (th = 0 /\ IdleWakeAllLock)
  \/ (th = 0 /\ IdleWakeAllBcast)
  \/ (th = 0 /\ IdleJoin)

\* the message queues opened with the defaults of the environment
InitThreads(units, pool, nthreads) ==
  /\ InitSched(units, pool, nthreads)
  /\ amsgq = AmsgOpen(TRUE, FALSE)
  /\ scan = NoScan
  /\ mq = AqOpen
  /\ QLockInit
  /\ idle = NoIdle

\* the message queues opened in any of the four modes
InitAmsg ==
  InitSched(1, SmallPool, NumThreads) /\ AmsgInit /\ scan = NoScan /\ mq = AqOpen
  /\ QLockInit
  /\ idle = NoIdle

\* NumThreads threads
InitWith(units, pool) == InitThreads(units, pool, NumThreads)

\* one unit: perform_matching and remote_progress return at once
Init == InitWith(1, SmallPool)
\* one unit, a memory pool of MaxTasks descriptors
InitDeps == InitWith(1, MaxTasks)
\* several units: phases are matched, dependencies may be remote
InitPhase == InitWith(2, SmallPool)
\* one unit, started with one thread or with NumThreads threads
InitTest ==
  \/ InitThreads(1, SmallPool, 1)
  \/ InitThreads(1, SmallPool, NumThreads)

Running(th) == /\ ~glob.crashed
               /\ th < glob.num_threads
               /\ (th = 0 \/ glob.threads_running)
InUser(s, th) ==
  \/ Top(s, th).k = "root" /\ Top(s, th).pc = "user"
  \/ Top(s, th).k \in {"ht", "hi"} /\ Top(s, th).pc = "body"
UserPc(f) == IF f.k = "root" THEN "user" ELSE "body"

TaskDepth(s, t) == IF t = Root THEN 0
                   ELSE IF s.task[t].parent = Root THEN 1 ELSE 2

\* the children of p that are neither finished nor destroyed
LiveChildren(s, p) ==
  {c \in Tasks : s.task[c].parent = p
                 /\ s.task[c].state \notin {"NONE", "FINISHED", "CANCELLED",
                                             "DESTROYED"}}

EndFrame(s, th) ==
  PopFrame([s EXCEPT !.thr[th].current_task = Top(s, th).cur], th)

\* ------------------------------------------------------------ create_task
\* dart__tasking__create_task up to and including the registration of the
\* dependencies; the task is NASCENT
CanAllocate(s, th) == s.fl[th] # <<>> \/ s.g.nfresh < s.g.pool

\* dart__tasking__create_task up to the registration of the dependencies
CreateTaskRegister(s, th, kind, ref, dep) ==
  LET c  == create_task([s EXCEPT !.g.threads_running = TRUE,
                                  !.g.ncreated = @ + 1], th, kind)
      t  == c.t
      s1 == [c.s EXCEPT !.task[t].has_ref = ref,
                        !.g.refs = IF ref THEN @ \cup {t} ELSE @,
                        !.h.was_cancelled = @ \ {t},
                        !.h.returned = @ \ {t},
                        !.h.zero_returns[t] = 0,
                        !.task[c.s.task[t].parent].num_children = @ + 1]
      s2 == dart_tasking_datadeps_handle_task(s1, t, dep)
  IN SetTop(s2, th, [Top(s2, th) EXCEPT !.pc = "create2", !.newt = t])

\* history: one more call of create_task came back without a task
NoteDropped(s) == [s EXCEPT !.h.drop_tick = ~@, !.h.create_ret = "DART_OK"]

\* the workload creates a task only while the bounds allow one more
CreateBounds(s, th, ref, dep) ==
  /\ s.g.ncreated < MaxCreate /\ CanAllocate(s, th)
  /\ TaskDepth(s, s.thr[th].current_task) < MaxDepth
  /\ (dep # "none" \/ ref) => s.thr[th].current_task = Root
  /\ dep = "remote" => s.g.num_units > 1

\* variant of CreateTaskA: the cancellation flag is not looked at
CreateTaskAlways(th, kind, ref, dep) ==
  LET s == Cur IN
  /\ Running(th) /\ InUser(s, th)
  /\ CreateBounds(s, th, ref, dep)
  /\ Commit(IF dart__tasking__cancellation_requested(s)
            THEN NoteDropped(CreateTaskRegister(s, th, kind, ref, dep))
            ELSE CreateTaskRegister(s, th, kind, ref, dep))

CreateTaskA(th, kind, ref, dep) ==
  LET s == Cur IN
  /\ Running(th) /\ InUser(s, th)
  /\ CreateBounds(s, th, ref, dep)
  /\ Commit(IF dart__tasking__cancellation_requested(s)
            THEN NoteDropped(s)
            ELSE CreateTaskRegister(s, th, kind, ref, dep))

\* variant of CreateTaskB: the new task is queued whether runnable or not
CreateTaskBUnchecked(th) ==
  LET s == Cur IN
  /\ Running(th) /\ Top(s, th).pc = "create2"
  /\ LET t  == Top(s, th).newt
         s1 == SetTop([s EXCEPT !.task[t].state = "QUEUED"], th,
                      [Top(s, th) EXCEPT !.pc = UserPc(Top(s, th)), !.newt = NULL])
     IN Commit(PutRunnable(s1, th, t))

\* the rest of dart__tasking__create_task: CREATED, and enqueued if runnable
CreateTaskB(th) ==
  LET s == Cur IN
  /\ Running(th) /\ Top(s, th).pc = "create2"
  /\ LET t  == Top(s, th).newt
         s1 == SetTop([s EXCEPT !.task[t].state = "CREATED"], th,
                      [Top(s, th) EXCEPT !.pc = UserPc(Top(s, th)), !.newt = NULL])
         s2 == IF dart_tasking_datadeps_is_runnable(s1, t)
               THEN enqueue_runnable(s1, th, t) ELSE s1
     IN Commit([s2 EXCEPT !.h.create_ret = "DART_OK"])

\* ------------------------------------------------------------ thread_main
WorkerLoop(th) ==
  LET s == Cur IN
  /\ Running(th) /\ Top(s, th).k = "main"
  /\ LET r == next_task(s, th) IN
     /\ r.t # NULL
     /\ Commit(dart__tasking__handle_task_internal(r.s, th, r.t))

\* ------------------------------------------------------------ handle_task
\* ghost: the function of task t is called for the first time; h.entered
\* collects the tasks entered while cancellation was requested
EnterNote(s, t) ==
  IF dart__tasking__cancellation_requested(s)
  THEN [s EXCEPT !.h.entered = @ \cup {t}] ELSE s

\* invoke_task: a context is created on the first invocation, and none at
\* all while cancellation is requested
invoke_task(s, th, t) ==
  IF ~dart__tasking__cancellation_requested(s)
  THEN LET c  == dart__tasking__context_create(s, th)
           s1 == IF s.task[t].taskctx = NULL
                 THEN EnterNote([c.s EXCEPT !.task[t].taskctx = c.c], t) ELSE s
       IN SetTop([s1 EXCEPT !.thr[th].current_task = t], th,
                 [Top(s1, th) EXCEPT !.pc = "body", !.cur = s.thr[th].current_task])
  ELSE SetTop([s EXCEPT !.thr[th].current_task = t], th,
              [Top(s, th) EXCEPT !.pc = "post", !.cur = s.thr[th].current_task])

SetRunning(s, t) ==
  [s EXCEPT !.task[t].state = "RUNNING"]

HandleTaskStart(th) ==
  LET s == Cur IN
  /\ Running(th) /\ Top(s, th).k = "ht" /\ Top(s, th).pc = "start"
  /\ LET t  == Top(s, th).t
         s1 == SetTop(s, th, [Top(s, th) EXCEPT !.gpar = s.task[t].parent])
     IN Commit(invoke_task(SetRunning(s1, t), th, t))

HandleInlineStart(th) ==
  LET s == Cur
      t == Top(s, th).t IN
  /\ Running(th) /\ Top(s, th).k = "hi" /\ Top(s, th).pc = "start"
  /\ Commit(SetTop([EnterNote(SetRunning(s, t), t)
                       EXCEPT !.thr[th].current_task = t], th,
                   [Top(s, th) EXCEPT !.pc = "body", !.cur = s.thr[th].current_task,
                                      !.gpar = s.task[t].parent]))

\* the task function returns (wrap_task jumps back into handle_task)
BodyReturn(th) ==
  LET s == Cur IN
  /\ Running(th) /\ Top(s, th).k \in {"ht", "hi"} /\ Top(s, th).pc = "body"
  /\ Commit(SetTop([s EXCEPT !.h.upreds = [u \in Tasks |->
                                              @[u] \ {s.thr[th].current_task}],
                              !.h.returned = @ \cup {s.thr[th].current_task}],
                   th, [Top(s, th) EXCEPT !.pc = "post"]))

\* ------------------------------------------------------------------ yield
\* requeue_task: the suspended task goes back into the NUMA queue
requeue_task(s, th, t) ==
  LET delay == s.thr[th].delay IN
  IF delay = 0 THEN dart_tasking_taskqueue_push(s, t)
  ELSE IF delay > 0 THEN dart_tasking_taskqueue_insert(s, t, delay)
  ELSE dart_tasking_taskqueue_pushback(s, t)

\* the value dart__tasking__yield returns to the task that called it
\* ("abort": the call leaves through abort_current_task and does not return)
YieldReturn(s, th) ==
  IF ~s.g.threads_running THEN "DART_OK"
  ELSE IF dart__tasking__cancellation_requested(s) THEN "abort"
  ELSE IF s.task[s.thr[th].current_task].inl THEN "DART_ERR_INVAL"
  ELSE "DART_OK"

\* variant of dart__tasking__yield: the INLINE flag is not looked at
YieldIgnoreInline(s, th, delay) ==
  LET t  == s.thr[th].current_task
      s0 == [s EXCEPT !.task[t].yields = @ + 1]
      r  == next_task(s0, th)
  IN
  IF r.t = NULL THEN s0
  ELSE SetTop([r.s EXCEPT !.thr[th].delay = delay,
                          !.task[t].state = "SUSPENDED",
                          !.thr[th].next_task = r.t], th,
              [Top(r.s, th) EXCEPT !.pc = "post"])

\* the high priority tasks that wait in a hot slot or in the NUMA queue
HighWaiting(s) ==
  {u \in Tasks : /\ IsHigh(s, u) /\ s.task[u].state = "QUEUED"
                 /\ \/ \E v \in Threads, i \in Slots : s.thr[v].queue[i] = u
                    \/ \E k \in 1 .. Len(s.tq.high) : s.tq.high[k] = u}

\* ghost: a low priority task yields to a low priority task although a high
\* priority task waits
YieldNote(s, t, next) ==
  [s EXCEPT !.h.yield_passed_high =
     @ \/ (~IsHigh(s, t) /\ ~IsHigh(s, next) /\ HighWaiting(s) # {})]

\* dart__tasking__yield called by the running task of thread th
dart__tasking__yield(s, th, delay) ==
  LET t  == s.thr[th].current_task
      s0 == [s EXCEPT !.task[t].yields = @ + 1]
      r  == next_task(s0, th)
  IN
  IF dart__tasking__cancellation_requested(s)
  THEN \* abort_current_task: longjmp into invoke_taskfn, which marks the
       \* task CANCELLED and returns into handle_task
       SetTop([s0 EXCEPT !.task[t].state = "CANCELLED",
                         !.h.was_cancelled = @ \cup {t}], th,
              [Top(s0, th) EXCEPT !.pc = "post"])
  ELSE IF s.task[t].inl THEN s0
  ELSE IF r.t = NULL THEN s0
  ELSE SetTop([YieldNote(r.s, t, r.t)
                 EXCEPT !.thr[th].delay = delay,
                        !.task[t].state = "SUSPENDED",
                        !.thr[th].next_task = r.t], th,
              [Top(r.s, th) EXCEPT !.pc = "post"])

BodyYield(th, delay) ==
  LET s == Cur IN
  /\ Running(th) /\ Top(s, th).k \in {"ht", "hi"} /\ Top(s, th).pc = "body"
  /\ s.task[s.thr[th].current_task].yields < MaxYield
  /\ Top(s, th).k = "hi" => ~dart__tasking__cancellation_requested(s)
  /\ Commit(dart__tasking__yield(s, th, delay))

\* ------------------------------------------- handle_task after the body
task_complete_frame(s, th, local_only) ==
  PushFrame(s, th, [Frame("tc", s.thr[th].current_task, "loop")
                      EXCEPT !.flag = local_only])

\* variant of PostBranch: a task that yielded is taken for a completed one
PostBranchNoSuspend(st) ==
  IF st = "DETACHED" THEN "detached" ELSE "done"

\* the branch handle_task takes on the state of the task it comes back from
PostBranch(st) ==
  IF st = "DETACHED" THEN "detached"
  ELSE IF st = "SUSPENDED" THEN "suspended"
  ELSE "done"

HandleTaskPost(th) ==
  LET s  == Cur
      f  == Top(s, th)
      pt == s.thr[th].current_task IN
  /\ Running(th) /\ f.k = "ht" /\ f.pc = "post"
  /\ Commit(
       IF PostBranch(s.task[pt].state) = "detached"
       THEN LET s1 == dart__tasking__context_release(s, s.task[f.t].taskctx, th)
            IN EndFrame([s1 EXCEPT !.task[f.t].taskctx = NULL,
                                   !.g.waitq = @ \cup {pt}], th)
       ELSE IF PostBranch(s.task[pt].state) = "suspended"
       THEN EndFrame(requeue_task(s, th, pt), th)
       ELSE LET s1 == SetTop(s, th, [f EXCEPT !.pc = "release"]) IN
            IF s.task[pt].num_children # 0
               /\ ~dart__tasking__cancellation_requested(s)
            THEN task_complete_frame(s1, th, TRUE)
            ELSE s1)

HandleInlinePost(th) ==
  LET s == Cur
      f == Top(s, th) IN
  /\ Running(th) /\ f.k = "hi" /\ f.pc = "post"
  /\ Commit(
       LET s1 == SetTop(s, th, [f EXCEPT !.pc = "release",
                                         !.par = s.task[f.t].parent]) IN
       IF s.task[f.t].num_children # 0
          /\ ~dart__tasking__cancellation_requested(s)
       THEN task_complete_frame(s1, th, TRUE)
       ELSE s1)

\* dart_tasking_datadeps_release_local_task, one successor at a time; the
\* task leaves the dependency table when no successor is left
ReleaseOne(s, th, t) ==
  LET u  == CHOOSE u \in s.task[t].successor :
               \A w \in s.task[t].successor : u <= w
      s1 == [s EXCEPT !.task[t].successor = @ \ {u},
                      !.task[u].unresolved_deps = @ - 1]
  IN IF dart_tasking_datadeps_is_runnable(s1, u)
     THEN enqueue_runnable(s1, th, u) ELSE s1

HandleRelease(th) ==
  LET s == Cur
      f == Top(s, th) IN
  /\ Running(th) /\ f.k \in {"ht", "hi", "rd"} /\ f.pc = "release"
  /\ Commit(
       IF f.k = "hi" /\ s.task[f.t].state = "DETACHED"
       THEN EndFrame([s EXCEPT !.g.waitq = @ \cup {f.t}], th)
       ELSE IF s.task[f.t].successor # {} THEN ReleaseOne(s, th, f.t)
       ELSE SetTop(dart_tasking_datadeps_reset(s, f.t), th,
                   [f EXCEPT !.pc = "finish"]))

\* variant of SetFinished: the state is left as it is
SetFinishedKeep(s, t) == s

\* LOCK_TASK; state = FINISHED; has_ref = HAS_REF flag; UNLOCK_TASK
SetFinished(s, t) == [s EXCEPT !.task[t].state = "FINISHED"]

HandleFinish(th) ==
  LET s == Cur
      f == Top(s, th) IN
  /\ Running(th) /\ f.k \in {"ht", "hi", "rd"} /\ f.pc = "finish"
  /\ Commit(SetTop(SetFinished(s, f.t), th,
                   [f EXCEPT !.pc = IF f.k = "ht" THEN "ctxrel" ELSE "cleanup",
                             !.has_ref = s.task[f.t].has_ref]))

\* dart__tasking__context_release(task->taskctx); task->taskctx = NULL
HandleCtxRelease(th) ==
  LET s == Cur
      f == Top(s, th) IN
  /\ Running(th) /\ f.k = "ht" /\ f.pc = "ctxrel"
  /\ LET s1 == dart__tasking__context_release(s, s.task[f.t].taskctx, th) IN
     Commit(SetTop([s1 EXCEPT !.task[f.t].taskctx = NULL], th,
                   [f EXCEPT !.pc = "cleanup"]))

\* parent = task->parent; the task is destroyed unless it is referenced
HandleCleanup(th) ==
  LET s == Cur
      f == Top(s, th) IN
  /\ Running(th) /\ f.k \in {"ht", "hi", "rd"} /\ f.pc = "cleanup"
  /\ LET par == IF f.k = "hi" THEN f.par ELSE s.task[f.t].parent
         s1  == IF ~f.has_ref THEN dart__tasking__destroy_task(s, f.t) ELSE s
     IN Commit(SetTop(s1, th, [f EXCEPT !.pc = "dec", !.par = par]))

\* DART_DEC_AND_FETCH32(&parent->num_children)
DecChildren(s, par) == [s EXCEPT !.task[par].num_children = @ - 1]

HandleDec(th) ==
  LET s == Cur
      f == Top(s, th) IN
  /\ Running(th) /\ f.k \in {"ht", "hi", "rd"} /\ f.pc = "dec"
  /\ LET s1 == NoteZero([DecChildren(s, f.par) EXCEPT
                              !.h.wrong_dec = @ \/ f.par # f.gpar,
                              !.h.rd_wrong_dec = @ \/ (f.k = "rd" /\ f.par # f.gpar)],
                         f.par)
     IN Commit(IF f.k = "rd" THEN PopFrame(s1, th) ELSE EndFrame(s1, th))

\* ---------------------------------------------------------- task_complete
\* the children of p that wait on the wait engine for release_detached
\* (pinst, a ghost: the use of the parent's descriptor the child was created
\* under; a descriptor that was recycled since is another task)
DetachedChildren(s, p) ==
  {c \in s.g.waitq : /\ s.task[c].parent = p /\ s.task[c].state = "DETACHED"
                     /\ s.task[c].pinst = s.task[p].instance
                     /\ s.task[p].state \notin {"NONE", "DESTROYED"}}

\* dart_tasking_datadeps_handle_defered_local (specification, section 4.3):
\* the deferred queue is drained, every task of it is evaluated again
RECURSIVE HandleDeferedLocal(_, _, _)
HandleDeferedLocal(s, th, q) ==
  IF q = <<>> THEN s
  ELSE LET t  == Head(q)
           s1 == IF s.task[t].state = "DEFERRED"
                 THEN [s EXCEPT !.task[t].state = "CREATED"] ELSE s
       IN HandleDeferedLocal(enqueue_runnable(s1, th, t), th, Tail(q))

\* the steps of perform_matching; h.matching lists the steps taken since
\* task_complete(false) was called on the root task.  The progress of the
\* transport, the deferred remote requests and the wake-up of the workers
\* change nothing the model keeps.
MatchNote(s, step) == [s EXCEPT !.h.matching = Append(@, step)]
dart_tasking_remote_progress_blocking(s) == MatchNote(s, "progress_blocking")
dart_tasking_datadeps_handle_defered_remote(s, phase) ==
  MatchNote(s, "handle_defered_remote")
dart__tasking__phase_set_runnable(s, phase) ==
  MatchNote([s EXCEPT !.g.runnable_phase = phase], "phase_set_runnable")
dart_tasking_datadeps_handle_defered_local(s, th) ==
  MatchNote(HandleDeferedLocal([s EXCEPT !.g.deferred = <<>>], th, s.g.deferred),
            "handle_defered_local")
wakeup_thread_all(s) == MatchNote(s, "wakeup_thread_all")

\* variant of perform_matching: the deferred queue is drained before the
\* phase is marked runnable
perform_matching_drain_first(s, th, phase) ==
  IF s.g.num_units = 1 THEN s
  ELSE LET s1 == dart_tasking_remote_progress_blocking(s)
           s2 == dart_tasking_datadeps_handle_defered_remote(s1, phase)
           s3 == dart_tasking_datadeps_handle_defered_local(s2, th)
           s4 == dart__tasking__phase_set_runnable(s3, phase)
       IN wakeup_thread_all(s4)

dart__tasking__perform_matching(s, th, phase) ==
  IF s.g.num_units = 1 THEN s
  ELSE LET s1 == dart_tasking_remote_progress_blocking(s)
           s2 == dart_tasking_datadeps_handle_defered_remote(s1, phase)
           s3 == dart__tasking__phase_set_runnable(s2, phase)
           s4 == dart_tasking_datadeps_handle_defered_local(s3, th)
       IN wakeup_thread_all(s4)

TaskComplete(th, local_only) ==
  LET s == Cur IN
  /\ Running(th) /\ InUser(s, th)
  /\ s.g.threads_running
  /\ ~local_only => s.thr[th].current_task = Root
  /\ LET s1 == IF s.thr[th].current_task = Root /\ ~local_only
               THEN dart__tasking__perform_matching(
                      [s EXCEPT !.h.matching = <<>>], th, s.g.cur_phase)
               ELSE s
     IN Commit(task_complete_frame(s1, th, local_only))

\* one iteration of the loop "while (task->num_children > 0)"
TaskCompleteLoop(th) ==
  LET s == Cur
      f == Top(s, th) IN
  /\ Running(th) /\ f.k = "tc"
  /\ s.task[f.t].num_children > 0
  /\ LET r == next_task(s, th) IN
     /\ r.t # NULL
     /\ Commit(dart__tasking__handle_task_internal(r.s, th, r.t))

TaskCompleteReturn(th) ==
  LET s == Cur
      f == Top(s, th) IN
  /\ Running(th) /\ f.k = "tc"
  /\ ~(s.task[f.t].num_children > 0)
  /\ LET s1 == [s EXCEPT !.h.tc_bad = @ \/ s.task[f.t].num_children # 0
                                        \/ LiveChildren(s, f.t) # {},
                          !.h.tc_left_detached = @ \/ DetachedChildren(s, f.t) # {}]
         s2 == IF f.t = Root
               THEN [s1 EXCEPT !.g.runnable_phase = DART_PHASE_FIRST,
                               !.g.cur_phase = DART_PHASE_FIRST]
               ELSE s1
     IN Commit(PopFrame(IF f.t = Root /\ ~f.flag
                        THEN dart_tasking_remote_progress_blocking(s2)
                        ELSE s2, th))

\* --------------------------------------------------------- task references
\* the references are held by the main thread, outside of any task
HoldsRef(s, th, t) ==
  Top(s, th).k = "root" /\ Top(s, th).pc = "user" /\ t \in s.g.refs

\* dart__tasking__taskref_free
TaskrefFree(th, t) ==
  LET s == Cur IN
  /\ Running(th) /\ HoldsRef(s, th, t)
  /\ LET s1 == [s EXCEPT !.task[t].has_ref = FALSE, !.g.refs = @ \ {t}]
     IN Commit(IF s.task[t].state = "FINISHED"
               THEN dart__tasking__destroy_task(s1, t) ELSE s1)

\* dart__tasking__task_wait: the caller executes tasks until the task is
\* FINISHED, then clears HAS_REF and destroys it
TaskWait(th, t) ==
  LET s == Cur IN
  /\ Running(th) /\ HoldsRef(s, th, t)
  /\ s.task[t].state # "DESTROYED"
  /\ Commit(PushFrame(s, th, Frame("tw", t, "loop")))

TaskWaitLoop(th) ==
  LET s == Cur
      f == Top(s, th) IN
  /\ Running(th) /\ f.k = "tw"
  /\ s.task[f.t].state # "FINISHED"
  /\ LET r == next_task(s, th) IN
     /\ r.t # NULL
     /\ Commit(dart__tasking__handle_task_internal(r.s, th, r.t))

TaskWaitReturn(th) ==
  LET s == Cur
      f == Top(s, th) IN
  /\ Running(th) /\ f.k = "tw"
  /\ s.task[f.t].state = "FINISHED"
  /\ Commit(PopFrame(dart__tasking__destroy_task(
              [s EXCEPT !.task[f.t].has_ref = FALSE, !.g.refs = @ \ {f.t}],
              f.t), th))

\* dart__tasking__task_test.  With one thread and the task not FINISHED
\* the caller takes one task and runs it before it looks at the state
\* again; a FINISHED task is destroyed, its HAS_REF flag left as it is.
\* variant of TestMustRun: the number of threads is not looked at
TestMustRunAny(s, st) == st # "FINISHED"

TestMustRun(s, st) == s.g.num_threads = 1 /\ st # "FINISHED"

TaskTestFinish(s, t) ==
  IF s.task[t].state = "FINISHED"
  THEN dart__tasking__destroy_task([s EXCEPT !.g.refs = @ \ {t}], t)
  ELSE s

TaskTest(th, t) ==
  LET s  == Cur
      st == s.task[t].state
  IN
  /\ Running(th) /\ HoldsRef(s, th, t)
  /\ st # "DESTROYED"
  /\ LET s0 == [s EXCEPT !.h.test_runs = 0, !.h.test_fin = (st = "FINISHED")]
     IN Commit(
          IF TestMustRun(s, st)
          THEN LET r  == next_task(s0, th)
                   s1 == PushFrame(r.s, th, Frame("tt", t, "check"))
               IN IF r.t = NULL THEN s1
                  ELSE dart__tasking__handle_task_internal(
                         [s1 EXCEPT !.h.test_runs = @ + 1], th, r.t)
          ELSE TaskTestFinish(s0, t))

\* back from handle_task_internal: the state is read again
TaskTestReturn(th) ==
  LET s == Cur
      f == Top(s, th) IN
  /\ Running(th) /\ f.k = "tt"
  /\ Commit(TaskTestFinish(PopFrame(s, th), f.t))

\* ------------------------------------------------------------ cancellation
\* the cancellation flag is raised by a task or by the main thread
\* (specification, section 5)
CancelStart(th) ==
  LET s == Cur IN
  /\ Running(th) /\ InUser(s, th)
  /\ s.g.threads_running
  /\ ~dart__tasking__cancellation_requested(s)
  /\ Commit([s EXCEPT !.g.cancel = TRUE])

\* ---------------------------------------------------------- stack overflow
\* the running task writes beyond the bottom (w = "lo") or beyond the top
\* (w = "hi") of its stack and overwrites the guard word there
BodyOverflow(th, w) ==
  LET s == Cur
      c == s.task[s.thr[th].current_task].taskctx IN
  /\ Running(th) /\ Top(s, th).k = "ht" /\ Top(s, th).pc = "body"
  /\ c # NULL /\ s.ctxs[c][w]
  /\ Commit([s EXCEPT !.ctxs[c][w] = FALSE])

\* ------------------------------------------------------------------ detach
dart__tasking__mark_detached(s, t) == [s EXCEPT !.task[t].state = "DETACHED"]

\* the running task detaches itself and its function returns
BodyDetach(th) ==
  LET s == Cur IN
  /\ Running(th) /\ Top(s, th).k \in {"ht", "hi"} /\ Top(s, th).pc = "body"
  /\ Commit(SetTop(dart__tasking__mark_detached(s, s.thr[th].current_task), th,
                   [Top(s, th) EXCEPT !.pc = "post"]))

\* a thread polling for work finds the handle of detached task t complete
\* and calls dart__tasking__release_detached
ReleaseDetached(th, t) ==
  LET s == Cur IN
  /\ Running(th) /\ Top(s, th).k \in {"main", "tc", "tw"}
  /\ t \in s.g.waitq /\ s.task[t].state = "DETACHED"
  /\ Commit(PushFrame([s EXCEPT !.g.waitq = @ \ {t}], th,
                      [Frame("rd", t, "release") EXCEPT
                         !.gpar = s.task[t].parent]))

\* -------------------------------------------------------------- dummy tasks
\* dart__tasking__allocate_dummytask: allocate_task, then
\* memset(task, 0, sizeof(*task)): every field of the descriptor is zero, the
\* instance counter and the owner included; then state, parent and phase
dart__tasking__allocate_dummytask(s, th) ==
  LET a   == allocate_task(s, th)
      par == s.thr[th].current_task
  IN [s |-> [a.s EXCEPT !.task[a.t] =
               [NoTask EXCEPT !.state = "DUMMY", !.parent = par, !.owner = 0,
                              !.phase = IF a.s.task[par].state = "ROOT"
                                        THEN a.s.g.cur_phase
                                        ELSE DART_PHASE_ANY]],
      t |-> a.t]

\* the dependency engine installs a placeholder (specification, section 4)
AllocateDummy(th) ==
  LET s == Cur IN
  /\ Running(th) /\ InUser(s, th)
  /\ s.g.ncreated < MaxCreate /\ CanAllocate(s, th)
  /\ Commit([dart__tasking__allocate_dummytask(s, th).s
               EXCEPT !.g.ncreated = @ + 1])

\* the placeholder is retired when the real producer appears
RetireDummy(th, t) ==
  LET s == Cur IN
  /\ Running(th) /\ InUser(s, th)
  /\ s.task[t].state = "DUMMY"
  /\ Commit(dart__tasking__destroy_task(s, t))

\* ---------------------------------------------------- phases, remote units
\* the main thread advances the phase counter (specification, section 4.3)
PhaseAdvance(th) ==
  LET s == Cur IN
  /\ Running(th) /\ th = 0 /\ Top(s, th).k = "root" /\ Top(s, th).pc = "user"
  /\ s.g.cur_phase < MaxPhase
  /\ Commit([s EXCEPT !.g.cur_phase = @ + 1])

\* a polling thread receives the release of the remote dependency of t
RemoteRelease(th, t) ==
  LET s == Cur IN
  /\ Running(th) /\ Top(s, th).k \in {"main", "tc", "tw"}
  /\ s.g.num_units > 1
  /\ s.task[t].state \in {"NASCENT", "CREATED"}
  /\ s.task[t].unresolved_remote_deps > 0
  /\ LET s1 == [s EXCEPT !.task[t].unresolved_remote_deps = @ - 1]
     IN Commit(IF dart_tasking_datadeps_is_runnable(s1, t)
               THEN enqueue_runnable(s1, th, t) ELSE s1)

SchedStep(th) ==
  \/ CreateTaskB(th)
  \/ WorkerLoop(th)
  \/ HandleTaskStart(th)
  \/ BodyReturn(th)
  \/ HandleTaskPost(th)
  \/ HandleRelease(th)
  \/ HandleFinish(th)
  \/ HandleCtxRelease(th)
  \/ HandleCleanup(th)
  \/ HandleDec(th)
  \/ TaskCompleteLoop(th)
  \/ TaskCompleteReturn(th)

\* the steps of handle_inline_task, taken where tasks carry the INLINE flag
InlineStep(th) ==
  \/ HandleInlineStart(th)
  \/ HandleInlinePost(th)

\* inline tasks, nested tasks, yield
Next ==
  \E th \in Threads :
    \/ SchedStep(th)
    \/ InlineStep(th)
    \/ \E kind \in {"normal", "inline", "noyield"} :
         CreateTaskA(th, kind, FALSE, "none")
    \/ \E d \in {0 - 1, 0} : BodyYield(th, d)
    \/ TaskComplete(th, TRUE)

Spec == Init /\ [][Next]_vars

\* tasks of the main thread with local dependencies on one address
NextDeps ==
  \E th \in Threads :
    \/ SchedStep(th)
    \/ \E dep \in {"in", "out"} : CreateTaskA(th, "normal", FALSE, dep)
    \/ BodyYield(th, 0)
    \/ TaskComplete(th, TRUE)

SpecDeps == InitDeps /\ [][NextDeps]_vars

\* tasks and placeholders share the descriptors
NextDummy ==
  \E th \in Threads :
    \/ SchedStep(th)
    \/ CreateTaskA(th, "normal", FALSE, "none")
    \/ TaskComplete(th, TRUE)
    \/ AllocateDummy(th)
    \/ \E t \in Tasks : RetireDummy(th, t)

SpecDummy == Init /\ [][NextDummy]_vars

\* referenced tasks: task_wait, task_test, taskref_free
NextRef ==
  \E th \in Threads :
    \/ SchedStep(th)
    \/ \E ref \in BOOLEAN : CreateTaskA(th, "normal", ref, "none")
    \/ TaskComplete(th, TRUE)
    \/ \E t \in Tasks : TaskrefFree(th, t)
    \/ \E t \in Tasks : TaskWait(th, t)
    \/ \E t \in Tasks : TaskTest(th, t)
    \/ TaskWaitLoop(th)
    \/ TaskWaitReturn(th)

SpecRef == Init /\ [][NextRef]_vars

\* task_test polled by the main thread, with one thread and with several
NextTest ==
  \E th \in Threads :
    \/ SchedStep(th)
    \/ \E ref \in BOOLEAN : CreateTaskA(th, "normal", ref, "none")
    \/ TaskComplete(th, TRUE)
    \/ \E t \in Tasks : TaskTest(th, t)
    \/ TaskTestReturn(th)

SpecTest == InitTest /\ [][NextTest]_vars

\* cancellation
NextCancel ==
  \E th \in Threads :
    \/ SchedStep(th)
    \/ \E dep \in {"none", "out"} : CreateTaskA(th, "normal", FALSE, dep)
    \/ BodyYield(th, 0)
    \/ TaskComplete(th, TRUE)
    \/ CancelStart(th)

SpecCancel == Init /\ [][NextCancel]_vars

\* cancellation with tasks of every kind
NextCancelInline ==
  \E th \in Threads :
    \/ SchedStep(th)
    \/ InlineStep(th)
    \/ \E kind \in {"normal", "inline", "noyield"} :
         CreateTaskA(th, kind, FALSE, "none")
    \/ TaskComplete(th, TRUE)
    \/ CancelStart(th)

SpecCancelInline == Init /\ [][NextCancelInline]_vars

\* tasks that overwrite the guard words of their stacks
NextCanary ==
  \E th \in Threads :
    \/ SchedStep(th)
    \/ CreateTaskA(th, "normal", FALSE, "none")
    \/ TaskComplete(th, TRUE)
    \/ \E w \in {"lo", "hi"} : BodyOverflow(th, w)

SpecCanary == Init /\ [][NextCanary]_vars

\* cancellation, every thread keeps running: the scheduler steps of a thread
\* (the worker loop, the loop of task_complete, handle_task, the return of a
\* task function) are taken as long as they are possible
\* The tasks create tasks, yield and return; the root task alone calls
\* task_complete.
NextCancelLive ==
  \E th \in Threads :
    \/ SchedStep(th)
    \/ \E dep \in {"none", "out"} : CreateTaskA(th, "normal", FALSE, dep)
    \/ BodyYield(th, 0)
    \/ Cur.thr[th].current_task = Root /\ TaskComplete(th, TRUE)
    \/ CancelStart(th)

SpecCancelLive ==
  Init /\ [][NextCancelLive]_vars /\ \A th \in Threads : WF_vars(SchedStep(th))

\* detached tasks
NextDetach ==
  \E th \in Threads :
    \/ SchedStep(th)
    \/ InlineStep(th)
    \/ \E kind \in {"normal", "noyield"} : CreateTaskA(th, kind, FALSE, "none")
    \/ TaskComplete(th, TRUE)
    \/ BodyDetach(th)
    \/ \E t \in Tasks : ReleaseDetached(th, t)

SpecDetach == Init /\ [][NextDetach]_vars

\* detached tasks that are referenced by the main thread
NextDetachRef ==
  \E th \in Threads :
    \/ SchedStep(th)
    \/ \E ref \in BOOLEAN : CreateTaskA(th, "normal", ref, "none")
    \/ TaskComplete(th, TRUE)
    \/ BodyDetach(th)
    \/ \E t \in Tasks : ReleaseDetached(th, t)
    \/ \E t \in Tasks : TaskrefFree(th, t)

SpecDetachRef == Init /\ [][NextDetachRef]_vars

\* several units: phases and remote dependencies
NextPhase ==
  \E th \in Threads :
    \/ SchedStep(th)
    \/ \E dep \in {"out", "remote"} : CreateTaskA(th, "normal", FALSE, dep)
    \/ PhaseAdvance(th)
    \/ \E local_only \in BOOLEAN : TaskComplete(th, local_only)
    \/ \E t \in Tasks : RemoteRelease(th, t)

SpecPhase == InitPhase /\ [][NextPhase]_vars

\* several units, and tasks that create tasks of their own
NextDefer ==
  \E th \in Threads :
    \/ SchedStep(th)
    \/ CreateTaskA(th, "normal", FALSE, "none")
    \/ PhaseAdvance(th)
    \/ \E local_only \in BOOLEAN : TaskComplete(th, local_only)
SpecDefer == InitWith(2, MaxTasks) /\ [][NextDefer]_vars

\* the same program run by one unit or by several
SpecMatch == (Init \/ InitPhase) /\ [][NextPhase]_vars

\* the task queue alone: every operation on two queues and MaxQueued tasks
NextQueue ==
  \/ \E q \in Queues, t \in QTasks, prio \in {"HIGH", "DEFAULT"} :
       \/ QueuePush(q, t, prio)
       \/ QueuePushback(q, t, prio)
       \/ \E pos \in 0 .. MaxPos : QueueInsert(q, t, prio, pos)
  \/ \E q \in Queues : QueuePop(q) \/ QueuePopback(q)
  \/ \E q \in Queues, t \in QTasks : QueueRemove(q, t)
  \/ \E dst \in Queues, src \in Queues : QueueMove(dst, src)
SpecQueue == Init /\ [][NextQueue]_vars

\* the active message queues: sends at any time, rounds of blocking progress
NextAmsg ==
  \/ \E p \in Procs :
       \/ \E target \in Procs : dart_amsg_sendrecv_trysend(p, target, MSG_SIZE)
       \/ TrysendCount(p)
       \/ dart_amsg_sendrecv_process(p)
       \/ ProcessBlockingStart(p)
       \/ ProcessBlockingMemset(p)
       \/ ProcessBlockingProcess(p)
       \/ ProcessBlockingTest(p)
       \/ ProcessBlockingSends(p)
       \/ ProcessBlockingFinal(p)
       \/ ProcessBlockingReturn(p)
  \/ \E m \in Msgs : MsgArrive(m)
SpecAmsg == InitAmsg /\ [][NextAmsg]_vars

\* sends of payloads of every size, and the progress that receives them
NextSend ==
  \/ \E p \in Procs :
       \/ \E target \in Procs, data_size \in 1 .. (MSG_SIZE + 1) :
            dart_amsg_sendrecv_trysend(p, target, data_size)
       \/ TrysendCount(p)
       \/ dart_amsg_sendrecv_process(p)
  \/ \E m \in Msgs : MsgArrive(m)
SpecSend == InitAmsg /\ [][NextSend]_vars

\* copy-in tasks on any thread, with a buffer of the caller or of the pool
NextCopyin ==
  \E c \in CopyTasks :
    \/ \E size \in CopySizes, dest \in {NULL, UserBuf} :
         CopyinCreate(c, size, dest)
    \/ PrepareDep(c)
    \/ AllocFind(c)
    \/ AllocLock(c)
    \/ AllocPop(c)
    \/ CopyinRetire(c)
SpecCopyin == Init /\ [][NextCopyin]_vars

\* copy-in tasks and computation tasks of the root task become runnable and
\* are pushed into a NUMA queue; workers pop
NextCopyPrio ==
  \/ \E q \in Queues, t \in QTasks :
       \E prio \in {COPYIN_TASK_PRIO, "PARENT", "DEFAULT", "LOW"} :
         QueuePush(q, t, create_task_prio(prio, "DEFAULT"))
  \/ \E q \in Queues : QueuePop(q)
SpecCopyPrio == Init /\ [][NextCopyPrio]_vars

\* time passes and the threads call remote_progress, with one unit or two
NextProgress ==
  \/ Tick
  \/ \E th \in Threads, force \in BOOLEAN : RemoteProgress(th, force)
SpecProgress == (Init \/ InitPhase) /\ [][NextProgress]_vars

\* next_task called again and again while the places are filled
InitScan ==
  /\ InitSched(1, SmallPool, NumThreads)
  /\ amsgq = AmsgOpen(TRUE, FALSE)
  /\ ScanInit
  /\ mq = AqOpen
  /\ QLockInit
  /\ idle = NoIdle
NextScan == ScanNextTask \/ ScanPut
SpecScan == InitScan /\ [][NextScan]_vars

\* the receives of a message queue: messages arrive while the threads call
\* the nonblocking progress and the blocking round
NextAqRecv ==
  \/ AqArrive
  \/ \E th \in AqThreads :
       \/ AqProcess(th) \/ AqTestsome(th) \/ AqDispatch(th)
       \/ AqRoundLock(th) \/ AqRoundBarrierTest(th) \/ AqRoundTestall(th)
       \/ AqRoundReset(th) \/ AqRoundLoop(th)
SpecAqRecv == Init /\ [][NextAqRecv]_vars

\* the send requests: the threads call trysend while sends complete
NextAqSend ==
  \/ AqSendComplete
  \/ \E th \in AqThreads :
       \/ AqTrysendLock(th) \/ AqTrysendTest(th)
       \/ AqTrysendClaim(th) \/ AqTrysendSend(th)
SpecAqSend == Init /\ [][NextAqSend]_vars

\* trysend on one thread while another is in the blocking round
NextAqRound ==
  \/ NextAqSend
  \/ \E th \in AqThreads :
       \/ AqTestsome(th) \/ AqDispatch(th)
       \/ AqRoundLock(th) \/ AqRoundBarrierTest(th) \/ AqRoundTestall(th)
       \/ AqRoundReset(th) \/ AqRoundLoop(th)
SpecAqRound == Init /\ [][NextAqRound]_vars

\* the locked operations of the task queues called by two threads
NextQueueLock ==
  \E th \in Threads :
    \/ \E q \in Queues, t \in QTasks : LockedPush(th, q, t)
    \/ \E q \in Queues : LockedPop(th, q)
    \/ \E dst \in Queues, src \in Queues : MoveLockDst(th, dst, src)
    \/ MoveLockSrc(th)
SpecQueueLock == Init /\ [][NextQueueLock]_vars

\* the idle policy: the master creates tasks, completes and stops the
\* threads under one of the three methods; every thread that can take a step
\* is scheduled again
InitIdle ==
  /\ InitSched(1, SmallPool, NumThreads)
  /\ amsgq = AmsgOpen(TRUE, FALSE)
  /\ scan = NoScan
  /\ mq = AqOpen
  /\ QLockInit
  /\ \E method \in IdleMethods : idle = IdleOpen(method)
NextIdle == \E th \in IdleThreads : IdleThread(th)
SpecIdle ==
  /\ InitIdle
  /\ [][NextIdle]_vars
  /\ \A th \in IdleThreads : WF_vars(IdleThread(th))

\* the queue under yield: suspended tasks come back, workers take tasks
\* low and high priority tasks submitted by the root task; they yield(-1)
NextYieldPrio ==
  \E th \in Threads :
    \/ SchedStep(th)
    \/ /\ Cur.thr[th].current_task = Root
       /\ \E kind \in {"normal", "high"} : CreateTaskA(th, kind, FALSE, "none")
    \/ BodyYield(th, 0 - 1)
    \/ TaskComplete(th, TRUE)

SpecYieldPrio == InitDeps /\ [][NextYieldPrio]_vars

NextRequeue ==
  \/ \E q \in Queues, t \in QTasks, prio \in {"HIGH", "DEFAULT"} :
       \E delay \in -1 .. MaxPos : QueueRequeue(q, t, prio, delay)
  \/ \E q \in Queues : QueuePop(q) \/ QueuePopback(q)
SpecRequeue == Init /\ [][NextRequeue]_vars


\* ------------------------------------------------------------- properties
AllFrames == {<<th, i>> \in Threads \X (1 .. (2 * MaxTasks + 4)) :
                i <= Len(thr[th].frames)}
FrameAt(x) == thr[x[1]].frames[x[2]]
IsHandler(f) == f.k \in {"ht", "hi"}
\* the positions of a handler inside the function of its task
InBody(f)    == IsHandler(f) /\ f.pc \in {"body", "create2"}

\* C1: a task with an IN or INOUT dependency on an address begins its body
\* only after the body of every earlier task of the same phase with an OUT
\* or INOUT dependency on that address has returned.
C1_DependencyOrder ==
  \A x \in AllFrames :
    InBody(FrameAt(x)) => hist.upreds[FrameAt(x).t] = {}

C1_Witness ==
  \E x \in AllFrames :
    /\ InBody(FrameAt(x))
    /\ task[FrameAt(x).t].dep = "in"
    /\ hist.preds[FrameAt(x).t] # {}

\* the places a task handle may be taken from or is executed at
InSlots(t)  == {x \in Threads \X Slots : thr[x[1]].queue[x[2]] = t}
InQueue(dq, t) == {i \in 1 .. Len(dq) : dq[i] = t}
InNext(t)   == {th \in Threads : thr[th].next_task = t}
Taken(t)    == {x \in AllFrames : /\ IsHandler(FrameAt(x))
                                   /\ FrameAt(x).t = t
                                   /\ FrameAt(x).pc \in {"start", "body"}}
Holders(t)  == Cardinality(InSlots(t)) + Cardinality(InQueue(task_queue.high, t))
               + Cardinality(InQueue(task_queue.low, t))
               + Cardinality(InNext(t)) + Cardinality(Taken(t))
Executors(t) == {x \in AllFrames : /\ IsHandler(FrameAt(x))
                                   /\ FrameAt(x).t = t
                                   /\ FrameAt(x).pc \in {"body", "create2", "post",
                                                         "release", "finish"}}

\* C3: a RUNNING task is held by exactly one worker, and a handle put in a
\* hot slot or in the NUMA queue is obtained by at most one next_task call.
C3_SingleHolder ==
  \A t \in Tasks :
    /\ Holders(t) <= 1
    /\ task[t].state = "RUNNING" => Cardinality(Executors(t)) = 1

C3_Witness ==
  \E t, u \in Tasks :
    /\ t # u
    /\ task[t].state = "RUNNING" /\ task[u].state = "RUNNING"
    /\ \E x \in Executors(t), y \in Executors(u) : x[1] # y[1]

C5_CompleteWaitsForChildren == ~hist.tc_bad

\* C6: num_children of every task is never negative and comes back to zero
\* once in the lifetime of the task.
C6_NumChildren ==
  \A t \in {Root} \cup Tasks :
    task[t].num_children >= 0 /\ hist.zero_returns[t] <= 1

\* C7: the decrement that follows the transition of a task to FINISHED goes
\* to num_children of the parent under which the task was created.
C7_FinishDecrementsParent == ~hist.wrong_dec

\* C8 as stated: a task never passes through both CANCELLED and FINISHED.
C8_NeverBoth ==
  \A t \in Tasks : ~(task[t].state = "FINISHED" /\ t \in hist.was_cancelled)

\* C8: a task is destroyed from FINISHED or from CANCELLED and from no other
\* state; a task aborted by cancellation is CANCELLED, then FINISHED.
C8_DestroyedFromTerminal ==
  hist.destroyed_from \subseteq {"FINISHED", "CANCELLED"}

C8_Witness ==
  \E t \in Tasks :
    /\ task[t].state = "DESTROYED" /\ t \in hist.was_cancelled
    /\ hist.destroyed_from = {"FINISHED"}

\* C9: a descriptor is destroyed once, and only with num_children = 0 and
\* the HAS_REF flag clear.
C9_DestroyedOnce ==
  /\ "DESTROYED" \notin hist.destroyed_from
  /\ ~hist.destroyed_ref
  /\ ~hist.destroyed_children

\* C10: a context in use belongs to one task, is released once per use to
\* the free list of the thread that allocated it, and context_release is
\* not called for a task without a context.
C10_ContextReturned ==
  /\ ~hist.null_release
  /\ ~hist.ctx_double /\ ~hist.ctx_foreign /\ ~hist.ctx_reuse_busy
  /\ \A c \in 1 .. Len(ctxs) :
       ctxs[c].inuse =>
         Cardinality({t \in Tasks : task[t].taskctx = c
                                    /\ task[t].state # "DESTROYED"}) = 1

\* C11: a descriptor that was destroyed (pushed on a task free list, from
\* where create_task may take it again) no longer holds a context: the
\* context went back to its pool before, whatever the interleaving of the
\* finishing worker with task_wait, task_test and taskref_free.
C11_ContextBeforeRecycle ==
  \A t \in Tasks :
    (\E o \in Threads : InQueue(task_free_lists[o], t) # {})
      => task[t].taskctx = NULL

\* C26: a low priority task that yields is never handed another low priority
\* task by next_task while a high priority task, submitted and runnable, waits
\* in a hot slot or in the NUMA queue.
C26_YieldToHigh == ~hist.yield_passed_high

\* the root task is inside task_complete
RootCompleting ==
  \E i \in 1 .. Len(thr[0].frames) :
    thr[0].frames[i].k = "tc" /\ thr[0].frames[i].t = Root

\* C27: when cancellation is requested while the root task waits in
\* task_complete, every pending or yielding task is aborted or skipped and
\* accounted for, and task_complete on the root task returns.
C27_CancelTerminates == (glob.cancel /\ RootCompleting) ~> ~RootCompleting

\* C28: context_release logs the stack overflow warning whenever at least
\* one of the two guard words written by context_create has been overwritten.
C28_CanaryWarning == ~hist.overflow_silent

\* C29: once cancellation is requested the function of no task is called
\* for the first time, whether the task is dispatched by handle_task or by
\* handle_inline_task.
C29_NoEntryAfterCancel == hist.entered = {}

\* C30: a task whose function returned in state DETACHED waits on the wait
\* engine without a context, still DETACHED and still counted by its parent;
\* release_detached decrements the num_children of that parent, and no task
\* returns from task_complete while a detached child of it waits.
C30_DetachedPending ==
  /\ \A t \in glob.waitq : task[t].state = "DETACHED" => task[t].taskctx = NULL
  /\ \A p \in {Root} \cup Tasks :
       DetachedChildren(Cur, p) # {} => task[p].num_children > 0
  /\ ~hist.rd_wrong_dec
  /\ ~hist.tc_left_detached

\* the hot slots and the positions of the NUMA queue that hold task t
Places(t) == Cardinality(InSlots(t)) + Cardinality(InQueue(task_queue.high, t))
             + Cardinality(InQueue(task_queue.low, t))

ScanPlaces(sc) ==
  {NextPlace} \cup {NumaPlace(n) : n \in 0 .. (sc.num_numa_nodes - 1)}
              \cup {SlotPlace(v, i) : v \in ScanThreads, i \in ScanSlots}
ScanFull(sc, p) ==
  IF p = NextPlace THEN sc.next_task
  ELSE IF p[1] = "task_queue" THEN sc.task_queue[p[2]]
  ELSE sc.queue[p[2]][p[3]]
ScanClass(sc, p) ==
  IF p = NextPlace THEN 1
  ELSE IF p[1] = "task_queue" THEN 5
  ELSE IF p[2] = sc.thread_id THEN 2
  ELSE IF p[2] = sc.last_steal_thread_id THEN 3
  ELSE IF sc.numa_id[p[2]] = sc.numa_id[sc.thread_id] THEN 4
  ELSE 6
ScanPos(sc, p) ==
  LET c == ScanClass(sc, p) IN
  IF c = 2 THEN p[3]
  ELSE IF c = 3 THEN 0 - p[3]
  ELSE IF c = 5
  THEN (p[2] + sc.num_numa_nodes - sc.numa_id[sc.thread_id])
         % sc.num_numa_nodes
  ELSE 0
ScanBefore(sc, q, r) ==
  \/ ScanClass(sc, q) < ScanClass(sc, r)
  \/ ScanClass(sc, q) = ScanClass(sc, r) /\ ScanPos(sc, q) < ScanPos(sc, r)
ScanReturned(sc, r) ==
  IF r = NoTaskFound THEN \A p \in ScanPlaces(sc) : ~ScanFull(sc, p)
  ELSE /\ r \in ScanPlaces(sc)
       /\ ScanFull(sc, r)
       /\ \A q \in ScanPlaces(sc) : ScanFull(sc, q) => ~ScanBefore(sc, q, r)
ScanCalled ==
  /\ scan' # scan
  /\ \A p \in ScanPlaces(scan) : ScanFull(scan', p) => ScanFull(scan, p)
C32_ScanOrder == [][ScanCalled => ScanReturned(scan, scan'.ret)]_vars
C32_Witness ==
  /\ scan.ret # NoTaskFound /\ scan.ret # <<"none">>
  /\ ScanClass(scan, scan.ret) = 3
  /\ scan.numa_id[scan.ret[2]] # scan.numa_id[scan.thread_id]
  /\ \E v \in ScanThreads, i \in ScanSlots :
       ScanFull(scan, SlotPlace(v, i)) /\ ScanClass(scan, SlotPlace(v, i)) = 4
  /\ scan.task_queue[scan.numa_id[scan.thread_id]]

\* C33: a top-level task that is runnable while its phase is not sits in the
\* deferred queue in state DEFERRED and in no hot slot, NUMA queue or thread;
\* the call that created it returned DART_OK; a DEFERRED task is never
\* enqueued; a task whose parent is not the root task is never deferred.
C33_Deferred ==
  /\ \A t \in Tasks :
       /\ task[t].state = "DEFERRED" =>
            /\ task[t].parent = Root
            /\ Cardinality(InQueue(glob.deferred, t)) = 1
            /\ Holders(t) = 0
            /\ hist.create_ret = "DART_OK"
       /\ InQueue(glob.deferred, t) # {} => task[t].state = "DEFERRED"
       /\ (task[t].parent = Root /\ Places(t) > 0) =>
            dart__tasking__phase_is_runnable(Cur, task[t].phase)
  /\ hist.create_ret \in {"none", "DART_OK"}
C33_Witness ==
  \E t, u \in Tasks :
    /\ task[t].state = "DEFERRED" /\ task[t].parent = Root
    /\ ~dart__tasking__phase_is_runnable(Cur, task[t].phase)
    /\ hist.create_ret = "DART_OK"
    /\ \A th \in Threads : Top(Cur, th).pc # "create2"
    /\ task[u].parent \in Tasks /\ task[u].state = "QUEUED"

\* C34: a message that completed a receive is dispatched once, and its
\* receive is posted again, so that msg_count receives are posted whenever no
\* thread is in the dispatch loop; one thread at most tests and dispatches,
\* and it holds the processing mutex; a nonblocking call that finds the mutex
\* held returns DART_ERR_AGAIN and has dispatched nothing.
AqDispatching == {th \in AqThreads : mq.pc[th] \in {"testsome", "dispatch"}}
AqReported == {mq.recv_outidx[k] : k \in 1 .. Len(mq.recv_outidx)}
AqSlotsOf(m) == {i \in AqSlots : mq.recv_reqs[i].m = m}
AqDispatchOnce ==
  /\ \A m \in AqMsgs :
       IF m > mq.narrived THEN mq.dispatched[m] = 0 /\ AqSlotsOf(m) = {}
       ELSE \/ /\ mq.dispatched[m] = 0
               /\ \E i \in AqSlots :
                    /\ AqSlotsOf(m) = {i}
                    /\ \/ mq.recv_reqs[i].st = "matched"
                       \/ mq.recv_reqs[i].st = "inactive" /\ i \in AqReported
            \/ mq.dispatched[m] = 1 /\ AqSlotsOf(m) = {}
  /\ \A i \in AqSlots : mq.recv_reqs[i].st = "inactive" <=> i \in AqReported
  /\ AqReported # {} => \E th \in AqThreads : mq.pc[th] = "dispatch"
  /\ Cardinality(AqDispatching) <= 1
  /\ \A th \in AqDispatching : mq.processing_mutex = th
AqAgain ==
  mq'.again_tick # mq.again_tick =>
    /\ mq.processing_mutex # NULL
    /\ mq'.dispatched = mq.dispatched /\ mq'.recv_reqs = mq.recv_reqs
    /\ \E th \in AqThreads : mq'.ret[th] = "DART_ERR_AGAIN" /\ mq.pc[th] = "idle"
C34_DispatchOnce == []AqDispatchOnce /\ [][AqAgain]_vars
C34_Witness ==
  /\ \E m \in AqMsgs : mq.dispatched[m] = 1
  /\ \E th, u \in AqThreads :
       /\ mq.pc[th] = "dispatch" /\ mq.recv_outidx # <<>> /\ ~mq.blocking[th]
       /\ mq.ret[u] = "DART_ERR_AGAIN"
  /\ \E i \in AqSlots : mq.recv_reqs[i].st = "matched"

\* C39: a send slot trysend claimed while another thread is in the blocking
\* round is not handed out again before its request has completed, and
\* send_tailpos is written only by a thread that holds the send mutex.
C39_SlotKept == ~mq.slot_reused /\ ~mq.tail_unlocked

\* C40: with buffered sends send_tailpos never exceeds msg_count; trysend
\* returns DART_ERR_AGAIN exactly when all msg_count slots hold uncompleted
\* requests; every request that is still pending sits below send_tailpos and
\* every slot at or above it is free, whichever requests completed and in
\* whichever order MPI_Testsome reported them.
C40_SendSlots ==
  /\ mq.send_tailpos <= AqMsgCount /\ ~mq.overrun
  /\ ~mq.again_wrong
  /\ \A i \in AqSlots :
       i >= mq.send_tailpos => mq.send_reqs[i] = "MPI_REQUEST_NULL"

\* C35: the instance counter of a descriptor is never reset and grows each
\* time the descriptor is taken into use again, by create_task or by
\* allocate_dummytask.
InstanceStep ==
  \A t \in Tasks :
    /\ task'[t].instance >= task[t].instance
    /\ (task[t].state = "DESTROYED" /\ task'[t].state # "DESTROYED") =>
         task'[t].instance > task[t].instance
C35_InstanceGrows == [][InstanceStep]_vars

\* C36: the locked operations of the task queues never deadlock: no two
\* threads each hold the mutex of a queue and wait for the mutex the other
\* holds, so that move(A, B) and move(B, A) called together both complete.
WaitsFor(th, u) ==
  /\ qlock.pc[th] = "lock_src"
  /\ qlock.mutex[qlock.src[th]] = u
C36_NoDeadlock ==
  ~ \E th, u \in Threads : th # u /\ WaitsFor(th, u) /\ WaitsFor(u, th)

\* C37: under each idle method a task_complete on the root task returns, and
\* every task that was put in a hot slot or in the queue is executed, also
\* when a wake-up found no thread in the wait.
IdleAllDone ==
  idle.pc[0] = "tc_done" =>
    \A t \in IdleTaskIds : idle.where[t] \in {"none", "done"}
C37_Terminates ==
  /\ []IdleAllDone
  /\ idle.completing ~> (idle.pc[0] = "tc_done")
C37_Witness ==
  /\ IdleWait(idle) /\ idle.lost
  /\ idle.pc[0] = "tc_done"
  /\ \A t \in IdleTaskIds : idle.where[t] = "done"
  /\ \E t \in IdleTaskIds : idle.slot_of[t] \in IdleWorkers
  /\ \E t \in IdleTaskIds : idle.slot_of[t] = NoHolder

\* C38: once stop_threads has set parallel to false every worker leaves
\* thread_main, also one that was in the wait or about to lock the mutex in
\* wait_for_work; the mutex is held only at the statements between a lock and
\* its unlock, by no thread in wait_for_work that is in a task, and never
\* over a turn of a loop or the function of a task.
IdleLocked ==
  {"wfw_test", "wfw_unlock", "wake_signal", "stop_set", "wakeall_bcast"}
IdleInWait ==
  {"wfw_lock", "wfw_test", "cond_wait", "cond_relock", "wfw_unlock"}
IdleMutexFree ==
  /\ idle.thread_pool_mutex # NoHolder =>
       idle.pc[idle.thread_pool_mutex] \in IdleLocked
  /\ \A th \in IdleThreads :
       /\ idle.pc[th] \in IdleLocked => idle.thread_pool_mutex = th
       /\ idle.pc[th] \in IdleInWait => idle.stack[th] = <<>>
C38_WorkersExit ==
  /\ []IdleMutexFree
  /\ (~idle.parallel) ~> (\A w \in IdleWorkers : idle.pc[w] = "exit")
C38_Witness ==
  /\ IdleWait(idle)
  /\ {"cond_wait", "wfw_lock"} \subseteq idle.stop_saw
  /\ idle.pc[0] = "stopped"
  /\ \A w \in IdleWorkers : idle.pc[w] = "exit"

\* C12: pop and popback hand out a low priority task only when the queue
\* holds no high priority task, after any sequence of queue operations.
C12_HighBeforeLow == ~qhist.prio_bad

C12_Witness ==
  /\ qhist.last.op \in {"pop", "popback"}
  /\ lq.prio[qhist.last.t] = "DEFAULT"
  /\ \E q \in Queues \ {qhist.last.q} : HoldsHigh(q)
  /\ \E u \in QTasks : qhist.where[u] = qhist.last.q

\* C13: of the tasks of one priority that entered a queue by push, pop
\* returns the one pushed last and popback the one pushed first.
C13_LifoFifo == ~qhist.order_bad

C13_Witness ==
  /\ qhist.last.op = "popback"
  /\ qhist.last.n >= 3

\* C14: each deque has head = NULL exactly when tail = NULL, and is a
\* doubly linked list from head to tail that holds the tasks that entered
\* the queue with that priority and did not leave it, each once.
DequeConsistent(l, q, d) ==
  LET dq  == l.tq[q][d]
      fwd == Walk(l, q, d)
      n   == Len(fwd)
  IN /\ (dq.head = NULL) <=> (dq.tail = NULL)
     /\ n <= MaxQueued
     /\ \A i, j \in 1 .. n : fwd[i] = fwd[j] => i = j
     /\ n > 0 => /\ fwd[n] = dq.tail
                 /\ l.prev[dq.head] = NULL
                 /\ l.next[dq.tail] = NULL
     /\ \A i \in 1 .. (n - 1) : l.prev[fwd[i + 1]] = fwd[i]

C14_DequeInvariant ==
  /\ ~lq.fault
  /\ \A q \in Queues, d \in Deques :
       /\ DequeConsistent(lq, q, d)
       /\ {Walk(lq, q, d)[i] : i \in 1 .. Len(Walk(lq, q, d))}
            = {t \in QTasks : qhist.where[t] = q /\ DequeOf(lq, t) = d}

C14_Witness ==
  /\ qhist.last.op = "remove"
  /\ qhist.last.n = 2
  /\ Len(Walk(lq, qhist.last.q, DequeOf(lq, qhist.last.t))) = 2

\* C15: move(dst, src) leaves src empty and dst holding, per priority, the
\* tasks src held in their order and then the tasks dst held in theirs.
C15_MoveSplices == ~qhist.move_bad

C15_Witness ==
  /\ qhist.last.op = "move"
  /\ qhist.last.n >= 2

\* C16: a task suspended by yield(delay) goes back into its priority deque
\* at the head for delay = 0, at the tail for delay < 0, and behind exactly
\* delay tasks for delay > 0 (at the tail if the deque holds fewer).
C16_RequeuePosition == ~qhist.requeue_bad

\* C17: a call of yield by a task with the INLINE flag returns INVAL and
\* leaves the state of every task, every next_task slot, every hot slot and
\* the queue as they were.
InlineYieldStep(th) ==
  LET ct == thr[th].current_task IN
  /\ task[ct].inl
  /\ task'[ct].instance = task[ct].instance
  /\ task'[ct].yields = task[ct].yields + 1

C18_CreateDropped ==
  [][hist.drop_tick' # hist.drop_tick =>
       /\ dart__tasking__cancellation_requested(Cur)
       /\ task' = task
       /\ task_free_lists' = task_free_lists
       /\ glob'.nfresh = glob.nfresh
       /\ \A o \in Threads : /\ thr'[o].queue = thr[o].queue
                             /\ thr'[o].next_task = thr[o].next_task
       /\ task_queue' = task_queue]_vars

C18_Witness ==
  /\ hist.drop_tick
  /\ glob.cancel
  /\ \E t \in Tasks : task[t].state = "RUNNING"
  /\ \E th \in Threads : task_free_lists[th] # <<>>

C20_RoundComplete ==
  /\ ~amsgq.late
  /\ \A p \in Procs, q \in Procs : amsgq.recv_count[p][q] >= 0

\* C21: trysend sends a payload of exactly msg_size bytes; with a larger
\* payload it copies nothing beyond a send buffer, sends nothing and leaves
\* the slots and the send counters as they were.
C21_OversizeRejected ==
  /\ ~amsgq.overrun
  /\ \A m \in Msgs : amsgq.msg[m].st # "unsent" => amsgq.msg[m].size <= MSG_SIZE

\* the pools whose free list holds element e, the copy-in tasks that hold it
InPool(e) ==
  {i \in DOMAIN copyin.mem_pool :
     \E k \in DOMAIN copyin.mem_pool[i].elems : copyin.mem_pool[i].elems[k] = e}
HeldBy(e) == {c \in CopyTasks : copyin.dep[c].dest = e}

\* C22: a buffer taken from the copy-in pool is returned exactly once, when
\* its dependency retires, to the free list of the pool of the size it was
\* allocated with; a buffer of the caller never enters a pool.
C22_PoolReturn ==
  /\ ~copyin.user_pooled
  /\ \A i \in DOMAIN copyin.mem_pool :
       LET fl == copyin.mem_pool[i].elems IN
       /\ \A k \in DOMAIN fl : /\ fl[k] \in Elems
                               /\ copyin.elem[fl[k]].size = copyin.mem_pool[i].size
       /\ \A k, n \in DOMAIN fl : fl[k] = fl[n] => k = n
  /\ \A e \in Elems :
       /\ Cardinality(InPool(e)) + Cardinality(HeldBy(e)) =
            (IF e <= copyin.nelem THEN 1 ELSE 0)
       /\ copyin.taken[e] - copyin.returned[e] = Cardinality(HeldBy(e))
  /\ \A c \in CopyTasks :
       copyin.dep[c].pc = "none" => copyin.dep[c].dest \in {NULL, UserBuf}
\* a buffer of the pool went back to a pool that holds another size too,
\* while a task with a buffer of its caller has retired
C22_Witness ==
  /\ Len(copyin.mem_pool) = 2
  /\ \E e \in Elems : copyin.returned[e] = 2 /\ InPool(e) # {}
  /\ \E c \in CopyTasks : copyin.dep[c].pc = "none" /\ copyin.dep[c].dest = UserBuf

\* C23: a copy-in task (created with COPYIN_TASK_PRIO) that is in a NUMA queue
\* is returned by pop before every default or low priority task of that
\* queue: no pop returns such a task while a copy-in task is in the queue.
C23_CopyinFirst ==
  [][(qhist'.last.op = "pop" /\ qhist'.where # qhist.where) =>
       LET t == qhist'.last.t
           q == qhist'.last.q
       IN lq.prio[t] \in {"DEFAULT", "LOW"} =>
            ~ \E u \in QTasks : /\ qhist.where[u] = q
                                /\ lq.prio[u] = COPYIN_TASK_PRIO]_vars

\* C24: an unforced call of remote_progress invokes the progress of the
\* transport only if at least REMOTE_PROGRESS_INTERVAL_USEC have passed since
\* the previous progress of the thread; a forced call always invokes it; with
\* one unit it is never invoked.
C24_ProgressInterval ==
  LET c == progress.last IN
  c.th # NULL =>
    /\ c.units = 1 => ~c.invoked
    /\ (c.units # 1 /\ c.force) => c.invoked
    /\ (c.invoked /\ ~c.force) => c.elapsed >= REMOTE_PROGRESS_INTERVAL_USEC

\* the root task is inside task_complete(false)
RootMatching ==
  \E x \in AllFrames :
    FrameAt(x).k = "tc" /\ FrameAt(x).t = Root /\ ~FrameAt(x).flag
MatchingSteps ==
  <<"progress_blocking", "handle_defered_remote", "phase_set_runnable",
    "handle_defered_local", "wakeup_thread_all">>

\* C25 as stated: while the root task is in task_complete(false), matching has
\* been performed for the current phase, in the order progress, deferred
\* remote requests, phase runnable, deferred queue, wake-up, for every number
\* of units, one included.
C25_MatchingAlways ==
  RootMatching => hist.matching = MatchingSteps

\* C25 amended: with more than one unit the five steps are taken in that
\* order before the wait loop, so that in the loop the entry phase is
\* runnable and no task is left deferred; with one unit none of them is
\* taken; the blocking progress after the loop is issued in both cases.
C25_MatchingOrder ==
  LET steps == IF glob.num_units > 1 THEN MatchingSteps ELSE <<>> IN
  /\ RootMatching => hist.matching = steps
  /\ (RootMatching /\ glob.num_units > 1) =>
       /\ glob.runnable_phase = glob.cur_phase
       /\ glob.deferred = <<>>
       /\ \A t \in Tasks : task[t].state # "DEFERRED"
  /\ ~RootMatching =>
       hist.matching \in {<<>>, steps \o <<"progress_blocking">>}
\* several units: a task that had been deferred was released by the matching
\* of a later phase and the root task is in its wait loop
C25_Witness ==
  /\ RootMatching /\ glob.num_units > 1
  /\ glob.cur_phase > DART_PHASE_FIRST
  /\ hist.matching = MatchingSteps
  /\ \E t \in Tasks : task[t].phase = glob.cur_phase /\ task[t].state = "RUNNING"

====
